---------------------------- MODULE Spec2Model ----------------------------
(***************************************************************************)
(* gitlab-workhorse: the key-watcher (internal/redis/keywatcher.go), the   *)
(* Git smart-HTTP handlers (internal/git/git-http.go) and the archive      *)
(* handler (internal/git/archive.go, archivereader.go).                    *)
(***************************************************************************)
EXTENDS Integers, Sequences, FiniteSets, TLC

(***************************************************************************)
(* Bounds of the model.                                                    *)
(***************************************************************************)
\* pub/sub messages buffered on the publisher's connection
MaxEvents == 1
\* dial failures the store may inject in one run of the publisher
MaxDialFails == 12
\* bytes the last command of a pipeline writes to its standard output
StreamLen == 2
\* io.LimitReader(r.Body, 4096), scaled down, and the longest request body
SniffLimit == 2
MaxBody == 3

(***************************************************************************)
(* Program constants.                                                      *)
(***************************************************************************)
\* redisReconnectTimeout.Min, in milliseconds
BackoffMin == 100
\* redisReconnectTimeout.Max, in milliseconds
BackoffMax == 60000
\* redisReconnectTimeout.Factor
BackoffFactor == 2
\* capacity of a KeyChan's channel: make(chan bool, 1)
ChanCap == 1

Keys == {"k1", "k2"}
Values == {"v1", "v2"}
Watchers == {"w1", "w2"}
Reqs == {"r1", "r2"}
\* cmd (info-refs, RPC), archiveCmd and compressCmd (archive)
Cmds == {"cmd", "archiveCmd", "compressCmd"}

VARIABLES
    \* ---- key-watcher (keywatcher.go) ----
    store,          \* the store's value of each key
    keyWatcher,     \* map[string][]chan bool: key -> sequence of channels
    keyMutex,       \* "unlocked" | "locked" (held by notifyChanWatchers)
    keyWatchers,    \* the prometheus gauge
    hitMiss,        \* hitMissCounter: [hit |-> n, miss |-> n]
    chan,           \* per WatchKey call: number of buffered messages
    wpc,            \* per WatchKey call: position in WatchKey
    wkey,           \* per WatchKey call: argument key
    wvalue,         \* per WatchKey call: argument value
    wret,           \* per WatchKey call: the WatchKeyStatus returned
    wlog,           \* per WatchKey call: what the call did (history)
    nsent,          \* per channel: notifications ever sent to it (history)
    \* ---- publisher (Process / processInner) ----
    ppc,            \* position in Process / processInner
    events,         \* PMessages buffered on the connection (keys)
    nkey,           \* notifyChanWatchers: its argument
    nidx,           \* notifyChanWatchers: index in the range loop
    attempt,        \* redisReconnectTimeout's attempt counter
    delay,          \* the duration Process is sleeping for (0: not sleeping)
    failsLeft,      \* dial failures the store may still inject
    plog,           \* publisher history: last disconnect, slept since, ...
    \* ---- HTTP handlers (git-http.go, archive.go, archivereader.go) ----
    h,              \* per request: the handler's locals and its response
    proc,           \* per request and command: the subprocess
    stdout,         \* per request: bytes the last command has written
    ktask,          \* per request and command: the ctxKill goroutine
    fs,             \* the cache directory: archive_path, temporary names
    urlBase         \* basename of the archive URL the requests ask for

kwVars == <<store, keyWatcher, keyMutex, keyWatchers, hitMiss, chan, wpc, wkey,
            wvalue, wret, wlog, nsent>>
pubVars == <<ppc, events, nkey, nidx, attempt, delay, failsLeft, plog>>
hVars == <<h, proc, stdout, ktask, fs, urlBase>>
vars == <<kwVars, pubVars, hVars>>

(***************************************************************************)
(* Helpers.                                                                *)
(***************************************************************************)
RECURSIVE Pow(_, _)
Pow(b, n) == IF n = 0 THEN 1 ELSE b * Pow(b, n - 1)

\* s without its i-th element: append(chans[:i], chans[i+1:]...)
RemoveAt(s, i) == [j \in 1..(Len(s) - 1) |-> IF j < i THEN s[j] ELSE s[j + 1]]

\* delete(m, k) on a Go map
MapDelete(m, k) == [x \in (DOMAIN m) \ {k} |-> m[x]]

\* m[k] = v on a Go map
MapPut(m, k, v) == [x \in (DOMAIN m) \cup {k} |-> IF x = k THEN v ELSE m[x]]

\* m[k] on a Go map of slices: the nil slice for a missing key
MapGet(m, k) == IF k \in DOMAIN m THEN m[k] ELSE <<>>

\* index of the first element of s equal to c, 0 when there is none
RECURSIVE IndexFrom(_, _, _)
IndexFrom(s, c, i) ==
    IF i > Len(s) THEN 0
    ELSE IF s[i] = c THEN i
    ELSE IndexFrom(s, c, i + 1)

\* number of channels in the whole mapping
RECURSIVE TotalChans(_, _)
TotalChans(m, ks) ==
    IF ks = {} THEN 0
    ELSE LET k == CHOOSE x \in ks : TRUE
         IN Len(m[k]) + TotalChans(m, ks \ {k})

\* number of references to channel c in the mapping
RECURSIVE RefsIn(_, _, _)
RefsIn(m, ks, c) ==
    IF ks = {} THEN 0
    ELSE LET k == CHOOSE x \in ks : TRUE
         IN Cardinality({i \in 1..Len(m[k]) : m[k][i] = c})
            + RefsIn(m, ks \ {k}, c)

Refs(c) == RefsIn(keyWatcher, DOMAIN keyWatcher, c)

(***************************************************************************)
(* Key-watcher: addKeyChan, delKeyChan, WatchKey.                          *)
(***************************************************************************)
NoLog == [added |-> FALSE, first |-> "none", waited |-> "no",
          second |-> "none", hits |-> 0, misses |-> 0, dispatched |-> FALSE]

KWInit ==
    /\ store \in [Keys -> Values]
    /\ keyWatcher = [k \in {} |-> << >>]
    /\ keyMutex = "unlocked"
    /\ keyWatchers = 0
    /\ hitMiss = [hit |-> 0, miss |-> 0]
    /\ chan = [w \in Watchers |-> 0]
    /\ wpc = [w \in Watchers |-> "idle"]
    /\ wkey = [w \in Watchers |-> "k1"]
    /\ wvalue = [w \in Watchers |-> "v1"]
    /\ wret = [w \in Watchers |-> "none"]
    /\ wlog = [w \in Watchers |-> NoLog]
    /\ nsent = [w \in Watchers |-> 0]

\* WatchKey entry: kw := &KeyChan{Key: key, Chan: make(chan bool, 1)}
WatchKeyCall(w, key, value) ==
    /\ wpc[w] = "idle"
    /\ wpc' = [wpc EXCEPT ![w] = "add"]
    /\ wkey' = [wkey EXCEPT ![w] = key]
    /\ wvalue' = [wvalue EXCEPT ![w] = value]
    /\ wlog' = [wlog EXCEPT ![w] = NoLog]
    /\ UNCHANGED <<store, keyWatcher, keyMutex, keyWatchers, hitMiss, chan,
                   wret, nsent>>
    /\ UNCHANGED pubVars
    /\ UNCHANGED hVars

\* AddedKeyChan with the slice overwritten instead of appended to
AddedKeyChanReplace(m, key, c) == MapPut(m, key, <<c>>)

\* the mapping after addKeyChan(kc)
AddedKeyChan(m, key, c) == MapPut(m, key, Append(MapGet(m, key), c))

addKeyChan(w) ==
    /\ wpc[w] = "add"
    /\ keyMutex = "unlocked"
    /\ keyWatcher' = AddedKeyChan(keyWatcher, wkey[w], w)
    /\ keyWatchers' = keyWatchers + 1
    /\ wpc' = [wpc EXCEPT ![w] = "get1"]
    /\ wlog' = [wlog EXCEPT ![w].added = TRUE]
    /\ UNCHANGED <<store, keyMutex, hitMiss, chan, wkey, wvalue, wret, nsent>>
    /\ UNCHANGED pubVars
    /\ UNCHANGED hVars

\* FirstStatus with the comparison dropped: always goes on to wait
FirstStatusNoCompare(err, current, value) ==
    IF err THEN "Failure" ELSE "none"

\* the status WatchKey returns after its first GetString
FirstStatus(err, current, value) ==
    IF err THEN "Failure"
    ELSE IF current # value THEN "Immediately"
    ELSE "none"

\* CounterOf with a failure counted as a miss
CounterOfFailureCounted(st) ==
    CASE st = "Immediately" -> "miss"
      [] st = "Notified" -> "miss"
      [] st = "Failure" -> "miss"
      [] st = "NotifiedNoChange" -> "hit"
      [] st = "Timedout" -> "hit"
      [] OTHER -> "none"

\* the counter WatchKey increments when it returns status st
CounterOf(st) ==
    CASE st = "Immediately" -> "miss"
      [] st = "Notified" -> "miss"
      [] st = "NotifiedNoChange" -> "hit"
      [] st = "Timedout" -> "hit"
      [] OTHER -> "none"

Counted(st) ==
    IF CounterOf(st) = "none" THEN hitMiss
    ELSE [hitMiss EXCEPT ![CounterOf(st)] = @ + 1]

\* currentValue, err := GetString(key), and the two early returns
WatchKeyGet(w, err) ==
    /\ wpc[w] = "get1"
    /\ LET st == FirstStatus(err, store[wkey[w]], wvalue[w])
       IN /\ wret' = [wret EXCEPT ![w] = st]
          /\ hitMiss' = Counted(st)
          /\ wpc' = [wpc EXCEPT ![w] = IF st = "none" THEN "select" ELSE "del"]
          /\ wlog' = [wlog EXCEPT
                         ![w].first = IF err THEN "error"
                                      ELSE IF store[wkey[w]] = wvalue[w]
                                           THEN "equal" ELSE "differs",
                         ![w].hits = @ + (hitMiss'.hit - hitMiss.hit),
                         ![w].misses = @ + (hitMiss'.miss - hitMiss.miss)]
    /\ UNCHANGED <<store, keyWatcher, keyMutex, keyWatchers, chan, wkey,
                   wvalue, nsent>>
    /\ UNCHANGED pubVars
    /\ UNCHANGED hVars

\* select: case <-kw.Chan
WatchKeyNotified(w) ==
    /\ wpc[w] = "select"
    /\ chan[w] > 0
    /\ chan' = [chan EXCEPT ![w] = @ - 1]
    /\ wpc' = [wpc EXCEPT ![w] = "get2"]
    /\ wlog' = [wlog EXCEPT ![w].waited = "notified"]
    /\ UNCHANGED <<store, keyWatcher, keyMutex, keyWatchers, hitMiss, wkey,
                   wvalue, wret, nsent>>
    /\ UNCHANGED pubVars
    /\ UNCHANGED hVars

\* select: case <-time.After(timeout)
WatchKeyTimeout(w) ==
    /\ wpc[w] = "select"
    /\ wret' = [wret EXCEPT ![w] = "Timedout"]
    /\ hitMiss' = Counted("Timedout")
    /\ wpc' = [wpc EXCEPT ![w] = "del"]
    /\ wlog' = [wlog EXCEPT ![w].waited = "timeout",
                            ![w].hits = @ + (hitMiss'.hit - hitMiss.hit),
                            ![w].misses = @ + (hitMiss'.miss - hitMiss.miss)]
    /\ UNCHANGED <<store, keyWatcher, keyMutex, keyWatchers, chan, wkey,
                   wvalue, nsent>>
    /\ UNCHANGED pubVars
    /\ UNCHANGED hVars

\* SecondStatus with the two notified statuses exchanged
SecondStatusSwapped(err, current, value) ==
    IF err THEN "Failure"
    ELSE IF current # value THEN "NotifiedNoChange"
    ELSE "Notified"

\* the status WatchKey returns after the re-read that follows a notification
SecondStatus(err, current, value) ==
    IF err THEN "Failure"
    ELSE IF current # value THEN "Notified"
    ELSE "NotifiedNoChange"

WatchKeyReread(w, err) ==
    /\ wpc[w] = "get2"
    /\ LET st == SecondStatus(err, store[wkey[w]], wvalue[w])
       IN /\ wret' = [wret EXCEPT ![w] = st]
          /\ hitMiss' = Counted(st)
          /\ wlog' = [wlog EXCEPT
                         ![w].second = IF err THEN "error"
                                       ELSE IF store[wkey[w]] = wvalue[w]
                                            THEN "equal" ELSE "differs",
                         ![w].hits = @ + (hitMiss'.hit - hitMiss.hit),
                         ![w].misses = @ + (hitMiss'.miss - hitMiss.miss)]
    /\ wpc' = [wpc EXCEPT ![w] = "del"]
    /\ UNCHANGED <<store, keyWatcher, keyMutex, keyWatchers, chan, wkey,
                   wvalue, nsent>>
    /\ UNCHANGED pubVars
    /\ UNCHANGED hVars

\* DeletedKeyChan without the comparison kc.Chan == c: drops the first channel
DeletedKeyChanFirst(m, key, c) ==
    IF key \notin DOMAIN m THEN m
    ELSE LET m1 == MapPut(m, key, RemoveAt(m[key], 1))
         IN IF Len(m1[key]) = 0 THEN MapDelete(m1, key) ELSE m1

\* DeletedKeyChan without the delete of a key whose slice became empty
DeletedKeyChanKeepEmpty(m, key, c) ==
    IF key \notin DOMAIN m THEN m
    ELSE LET i == IndexFrom(m[key], c, 1)
         IN IF i = 0 THEN m ELSE MapPut(m, key, RemoveAt(m[key], i))

\* the mapping after delKeyChan(kc)
DeletedKeyChan(m, key, c) ==
    IF key \notin DOMAIN m THEN m
    ELSE LET i == IndexFrom(m[key], c, 1)
             m1 == IF i = 0 THEN m ELSE MapPut(m, key, RemoveAt(m[key], i))
         IN IF Len(m1[key]) = 0 THEN MapDelete(m1, key) ELSE m1

\* DeletedGauge decremented whether or not the channel was found
DeletedGaugeAlways(m, key, c, g) == g - 1

\* the gauge after delKeyChan(kc)
DeletedGauge(m, key, c, g) ==
    IF key \in DOMAIN m /\ IndexFrom(m[key], c, 1) # 0 THEN g - 1 ELSE g

\* defer delKeyChan(kw), then WatchKey returns
delKeyChan(w) ==
    /\ wpc[w] = "del"
    /\ keyMutex = "unlocked"
    /\ keyWatcher' = DeletedKeyChan(keyWatcher, wkey[w], w)
    /\ keyWatchers' = DeletedGauge(keyWatcher, wkey[w], w, keyWatchers)
    /\ wpc' = [wpc EXCEPT ![w] = "returned"]
    /\ UNCHANGED <<store, keyMutex, hitMiss, chan, wkey, wvalue, wret, wlog,
                   nsent>>
    /\ UNCHANGED pubVars
    /\ UNCHANGED hVars

(***************************************************************************)
(* Publisher: Process, processInner, notifyChanWatchers.                   *)
(***************************************************************************)
NoPLog == [last |-> "none", slept |-> FALSE, fails |-> 0]

PubInit(budget) ==
    /\ ppc = "dial"
    /\ events = << >>
    /\ nkey = "k1"
    /\ nidx = 0
    /\ attempt = 0
    /\ delay = 0
    /\ failsLeft = budget
    /\ plog = NoPLog

\* backoff.Backoff.ForAttempt without jitter: Min * Factor^attempt, capped
BackoffCeiling(n) ==
    IF BackoffMin * Pow(BackoffFactor, n) > BackoffMax THEN BackoffMax
    ELSE BackoffMin * Pow(BackoffFactor, n)

\* the durations Duration() can return at attempt n with Jitter: true,
\* rand*(dur-min)+min, by its smallest, a middle and its largest outcome
BackoffDurations(n) ==
    {BackoffMin, (BackoffMin + BackoffCeiling(n)) \div 2, BackoffCeiling(n)}

\* conn, err := redisDialFunc() with err == nil
DialOk ==
    /\ ppc = "dial"
    /\ ppc' = "psub1"
    /\ plog' = [plog EXCEPT !.fails = 0]
    /\ UNCHANGED <<events, nkey, nidx, attempt, delay, failsLeft>>
    /\ UNCHANGED kwVars
    /\ UNCHANGED hVars

\* redisDialFunc() fails: time.Sleep(redisReconnectTimeout.Duration())
DialFail ==
    /\ ppc = "dial"
    /\ failsLeft > 0
    /\ failsLeft' = failsLeft - 1
    /\ \E d \in BackoffDurations(attempt) : delay' = d
    /\ attempt' = attempt + 1
    /\ ppc' = "sleep"
    /\ plog' = [plog EXCEPT !.last = "dial", !.slept = FALSE,
                            !.fails = @ + 1]
    /\ UNCHANGED <<events, nkey, nidx>>
    /\ UNCHANGED kwVars
    /\ UNCHANGED hVars

\* time.Sleep returns
SleepDone ==
    /\ ppc = "sleep"
    /\ ppc' = "dial"
    /\ delay' = 0
    /\ plog' = [plog EXCEPT !.slept = TRUE]
    /\ UNCHANGED <<events, nkey, nidx, attempt, failsLeft>>
    /\ UNCHANGED kwVars
    /\ UNCHANGED hVars

\* AfterProcessInner without the Reset()
AfterProcessInnerNoReset(n) == n

\* the attempt counter after processInner returned: redisReconnectTimeout.Reset()
AfterProcessInner(n) == 0

\* psc.PSubscribe(keyPubEventSet), then psc.PSubscribe(keyPubEventExpired)
PSubscribeOk ==
    /\ ppc \in {"psub1", "psub2"}
    /\ ppc' = IF ppc = "psub1" THEN "psub2" ELSE "receive"
    /\ UNCHANGED <<events, nkey, nidx, attempt, delay, failsLeft, plog>>
    /\ UNCHANGED kwVars
    /\ UNCHANGED hVars

\* a PSubscribe fails: processInner returns, Process resets the backoff
PSubscribeFail ==
    /\ ppc \in {"psub1", "psub2"}
    /\ ppc' = "dial"
    /\ events' = << >>
    /\ attempt' = AfterProcessInner(attempt)
    /\ plog' = [plog EXCEPT !.last = "subscribe", !.slept = FALSE]
    /\ UNCHANGED <<nkey, nidx, delay, failsLeft>>
    /\ UNCHANGED kwVars
    /\ UNCHANGED hVars

\* psc.Receive() returns an error: processInner returns, Process resets
ReceiveError ==
    /\ ppc = "receive"
    /\ ppc' = "dial"
    /\ events' = << >>
    /\ attempt' = AfterProcessInner(attempt)
    /\ plog' = [plog EXCEPT !.last = "receive", !.slept = FALSE]
    /\ UNCHANGED <<nkey, nidx, delay, failsLeft>>
    /\ UNCHANGED kwVars
    /\ UNCHANGED hVars

\* the store sets (or expires) a key: a keyspace event reaches the
\* connection once it has subscribed
StoreEvent(k, v) ==
    /\ store' = [store EXCEPT ![k] = v]
    /\ IF ppc \in {"psub2", "receive", "notify"}
       THEN /\ Len(events) < MaxEvents
            /\ events' = Append(events, k)
       ELSE UNCHANGED events
    /\ UNCHANGED <<keyWatcher, keyMutex, keyWatchers, hitMiss, chan, wpc,
                   wkey, wvalue, wret, wlog, nsent>>
    /\ UNCHANGED <<ppc, nkey, nidx, attempt, delay, failsLeft, plog>>
    /\ UNCHANGED hVars

\* the call of w is between its addKeyChan and its deferred delKeyChan
InWatchKey(w) == wlog[w].added /\ wpc[w] \in {"get1", "select", "get2", "del"}

\* psc.Receive() returns a PMessage: notifyChanWatchers(key) takes the mutex;
\* with no watcher of the key it returns at once.  wlog records, for every
\* call in progress on the key, that an event was dispatched during it
ReceiveMessage ==
    /\ ppc = "receive"
    /\ events # << >>
    /\ keyMutex = "unlocked"
    /\ events' = Tail(events)
    /\ nkey' = Head(events)
    /\ IF Head(events) \in DOMAIN keyWatcher
       THEN /\ ppc' = "notify"
            /\ keyMutex' = "locked"
            /\ nidx' = 1
       ELSE UNCHANGED <<ppc, keyMutex, nidx>>
    /\ wlog' = [w \in Watchers |->
                    IF InWatchKey(w) /\ wkey[w] = Head(events)
                    THEN [wlog[w] EXCEPT !.dispatched = TRUE]
                    ELSE wlog[w]]
    /\ UNCHANGED <<attempt, delay, failsLeft, plog>>
    /\ UNCHANGED <<store, keyWatcher, keyWatchers, hitMiss, chan, wpc, wkey,
                   wvalue, wret, nsent>>
    /\ UNCHANGED hVars

\* NextChan always sending to the head of the list
NextChanHead(list, i) == list[1]

\* the channel the i-th iteration of "for _, c := range chanList" sends to
NextChan(list, i) == list[i]

\* one iteration of "for _, c := range chanList": c <- true; keyWatchers.Dec();
\* the send blocks while the channel's buffer is full
NotifySend ==
    /\ ppc = "notify"
    /\ nidx <= Len(keyWatcher[nkey])
    /\ LET c == NextChan(keyWatcher[nkey], nidx)
       IN /\ chan[c] < ChanCap
          /\ chan' = [chan EXCEPT ![c] = @ + 1]
          /\ nsent' = [nsent EXCEPT ![c] = @ + 1]
    /\ keyWatchers' = keyWatchers - 1
    /\ nidx' = nidx + 1
    /\ UNCHANGED <<ppc, events, nkey, attempt, delay, failsLeft, plog>>
    /\ UNCHANGED <<store, keyWatcher, keyMutex, hitMiss, wpc, wkey, wvalue,
                   wret, wlog>>
    /\ UNCHANGED hVars

\* NotifiedKeyWatcher without the delete
NotifiedKeyWatcherKept(m, key) == m

\* the mapping after the loop of notifyChanWatchers: delete(keyWatcher, key)
NotifiedKeyWatcher(m, key) == MapDelete(m, key)

\* delete(keyWatcher, key) and the deferred keyMutex.Unlock()
NotifyDone ==
    /\ ppc = "notify"
    /\ nidx > Len(keyWatcher[nkey])
    /\ keyWatcher' = NotifiedKeyWatcher(keyWatcher, nkey)
    /\ keyMutex' = "unlocked"
    /\ ppc' = "receive"
    /\ nidx' = 0
    /\ UNCHANGED <<events, nkey, attempt, delay, failsLeft, plog>>
    /\ UNCHANGED <<store, keyWatchers, hitMiss, chan, wpc, wkey, wvalue,
                   wret, wlog, nsent>>
    /\ UNCHANGED hVars

(***************************************************************************)
(* HTTP handlers: requests, responses, subprocesses.                       *)
(***************************************************************************)
\* what the last command of a pipeline writes when it runs to completion
FullStream == [i \in 1..StreamLen |-> "b" \o ToString(i)]

\* the longest request body a client sends
BodyStream == [i \in 1..MaxBody |-> "q" \o ToString(i)]

Services == {"git-upload-pack", "git-receive-pack", "git-foo"}
\* RepoPath of the envelope: empty, without objects/, a repository
RepoPaths == {"", "/srv/missing.git", "/srv/r.git"}
Basenames == {"archive", "archive.zip", "archive.tar", "archive.tar.gz",
              "archive.tgz", "archive.gz", "archive.tar.bz2", "archive.tbz",
              "archive.tbz2", "archive.tb2", "archive.bz2", "archive.exe"}

\* the answers of the auth backend to doAuthRequest: a transport error, a
\* response that is not 200, and 200 with a body that decodes or does not
NoEnv == [GL_ID |-> "", RepoPath |-> ""]
NoAuth == [err |-> FALSE, status |-> 0, header |-> {}, body |-> << >>,
           decodes |-> FALSE, env |-> NoEnv]
AuthResponses ==
    { [NoAuth EXCEPT !.err = TRUE],
      [NoAuth EXCEPT !.status = 401,
                     !.header = {<<"Www-Authenticate", "Basic realm=x">>,
                                 <<"Content-Type", "text/plain">>},
                     !.body = <<"HTTP Basic:", "Access denied">>],
      [NoAuth EXCEPT !.status = 403],
      [NoAuth EXCEPT !.status = 200, !.body = <<"not json">>,
                     !.header = {<<"Content-Type", "text/html">>}] }
    \cup { [NoAuth EXCEPT !.status = 200, !.body = <<"json">>,
                          !.header = {<<"Www-Authenticate", "Negotiate">>,
                                      <<"Set-Cookie", "s">>},
                          !.decodes = TRUE,
                          !.env = [GL_ID |-> "u1", RepoPath |-> p]] :
             p \in {"", "/srv/missing.git", "/srv/r.git"} }

NoReq == [pc |-> "idle", kind |-> "none", name |-> "", repo |-> "",
          status |-> 0, resp |-> << >>, errlog |-> << >>,
          isShallowClone |-> FALSE, rd |-> 0, waitErrors |-> << >>,
          tempFile |-> "none", ctx |-> "live", link |-> "none",
          method |-> "", path |-> << >>, asked |-> FALSE, auth |-> NoAuth,
          hdr |-> {}, cut |-> FALSE, glId |-> "",
          body |-> << >>, bodyRd |-> 0, buffer |-> << >>, stdin |-> << >>,
          stdinClosed |-> FALSE]

NoProc == [st |-> "none", code |-> "none", stray |-> FALSE, by |-> "none",
           recycled |-> FALSE, env |-> {}]

NoFiles == [archive |-> "none",
            tmp |-> [r \in Reqs |-> FALSE],
            ino |-> [r \in Reqs |-> << >>]]

HInit(base) ==
    /\ h = [r \in Reqs |-> NoReq]
    /\ proc = [r \in Reqs |-> [c \in Cmds |-> NoProc]]
    /\ stdout = [r \in Reqs |-> 0]
    /\ ktask = [r \in Reqs |-> [c \in Cmds |-> "none"]]
    /\ fs = NoFiles
    /\ urlBase = base

\* http.Error(w, msg, code): the status counts only if none was written yet
HttpError(hr, code, msg) ==
    [hr EXCEPT !.status = IF @ = 0 THEN code ELSE @,
               !.resp = Append(@, msg)]

\* the error logged and answered with an error body as well
LogErrorReported(hr, tag) ==
    [HttpError(hr, 500, "Internal server error") EXCEPT !.errlog = Append(@, tag)]

\* helper.LogError(r, err)
LogError(hr, tag) == [hr EXCEPT !.errlog = Append(@, tag)]

\* the error answered as "Not Found"
Fail500As404(hr, tag) == LogError(HttpError(hr, 404, "Not Found"), tag)

\* helper.Fail500(w, r, err): http.Error(w, "Internal server error", 500)
\* and the error logged
Fail500(hr, tag) == LogError(HttpError(hr, 500, "Internal server error"), tag)

Return(hr) == [hr EXCEPT !.pc = "returned"]

\* os.Environ() of the server, as name/value pairs
ParentEnv == {<<"PATH", "/usr/bin">>, <<"HOME", "/home/git">>,
              <<"SECRET_TOKEN", "s3cr3t">>}

\* os.Getenv(name)
Getenv(name) ==
    IF \E kv \in ParentEnv : kv[1] = name
    THEN (CHOOSE kv \in ParentEnv : kv[1] = name)[2]
    ELSE ""

\* the server's environment with GL_ID added
gitCommandInherit(glId) == ParentEnv \cup {<<"GL_ID", glId>>}

\* gitCommand: cmd.Env of the Git command
gitCommand(glId) == {<<"PATH", Getenv("PATH")>>, <<"GL_ID", glId>>}

\* exec.Command for the compressor: cmd.Env stays nil and the child gets
\* the environment of the server
CompressCommand == ParentEnv

\* cmd.Start() succeeded: the child runs in its own process group
Started(pr) == [pr EXCEPT !.st = "running"]

\* cmd.Start() of a command with environment env
StartedWith(pr, env) == [Started(pr) EXCEPT !.env = env]

\* syscall.Kill(-process.Pid, syscall.SIGTERM): a running group terminates;
\* after the child was reaped the pid no longer names its group, and the
\* signal goes to the process group that has been given the id since, if any
Killed(pr) ==
    CASE pr.st = "running" -> [pr EXCEPT !.st = "exited", !.code = "signal"]
      [] pr.st = "reaped" -> [pr EXCEPT !.stray = @ \/ pr.recycled]
      [] OTHER -> pr

\* a Wait that leaves the child unreaped
ReapedNot(pr, who) == pr

\* cmd.Wait() by `who` once the child has exited: the child is reaped
Reaped(pr, who) ==
    IF pr.st = "exited" THEN [pr EXCEPT !.st = "reaped", !.by = who] ELSE pr

\* the error of cmd.Wait() by `who`: nil only for the first Wait of a child
\* that exited with status 0
WaitError(pr) ==
    CASE pr.st = "reaped" -> "already waited"
      [] pr.code = "ok" -> "nil"
      [] pr.code = "signal" -> "signal"
      [] OTHER -> "exit status"

\* the command whose standard output the handler reads
LastCmd(r) ==
    IF h[r].kind # "archive" THEN "cmd"
    ELSE IF proc[r]["compressCmd"].st # "none" THEN "compressCmd"
    ELSE "archiveCmd"

\* the HTTP server calls the handler
Arrive(r, kind, name, repo) ==
    /\ h[r].pc = "idle"
    /\ kind \in {"inforefs", "rpc"}
    /\ h' = [h EXCEPT ![r].pc = "pre", ![r].kind = kind, ![r].name = name,
                      ![r].repo = repo, ![r].glId = "u1"]
    /\ UNCHANGED <<proc, stdout, ktask, fs, urlBase>>
    /\ UNCHANGED <<kwVars, pubVars>>

\* every path taken for a repository
looksLikeRepoAlways(p) == TRUE

\* os.Stat(path.Join(p, "objects")) succeeds
looksLikeRepo(p) == p = "/srv/r.git"

\* repoPreAuthorizeHandler: the closure handed to PreAuthorizeHandler
repoPreAuthorizeHandler(r) ==
    /\ h[r].pc = "pre"
    /\ h' = [h EXCEPT ![r] =
                IF h[r].repo = ""
                THEN Return(Fail500(h[r], "RepoPath empty"))
                ELSE IF ~looksLikeRepo(h[r].repo)
                THEN Return(HttpError(h[r], 404, "Not Found"))
                ELSE [h[r] EXCEPT !.pc = IF h[r].kind = "inforefs"
                                      THEN "i_service" ELSE "p_action"]]
    /\ UNCHANGED <<proc, stdout, ktask, fs, urlBase>>
    /\ UNCHANGED <<kwVars, pubVars>>

(***************************************************************************)
(* gitHandler.ServeHTTP: routing table, auth request, dispatch.            *)
(***************************************************************************)
\* Routing table; a suffix is the sequence of its path segments
gitServices ==
    << [method |-> "GET", suffix |-> <<"info", "refs">>,
        handleFunc |-> "inforefs", rpc |-> ""],
       [method |-> "POST", suffix |-> <<"git-upload-pack">>,
        handleFunc |-> "rpc", rpc |-> "git-upload-pack"],
       [method |-> "POST", suffix |-> <<"git-receive-pack">>,
        handleFunc |-> "rpc", rpc |-> "git-receive-pack"],
       [method |-> "GET", suffix |-> <<"repository", "archive">>,
        handleFunc |-> "archive", rpc |-> "tar.gz"],
       [method |-> "GET", suffix |-> <<"repository", "archive.zip">>,
        handleFunc |-> "archive", rpc |-> "zip"],
       [method |-> "GET", suffix |-> <<"repository", "archive.tar">>,
        handleFunc |-> "archive", rpc |-> "tar"],
       [method |-> "GET", suffix |-> <<"repository", "archive.tar.gz">>,
        handleFunc |-> "archive", rpc |-> "tar.gz"],
       [method |-> "GET", suffix |-> <<"repository", "archive.tar.bz2">>,
        handleFunc |-> "archive", rpc |-> "tar.bz2"] >>

Methods == {"GET", "POST"}
\* r.URL.Path, as the sequence of its segments
Paths == { <<"r.git", "info", "refs">>, <<"r.git", "git-upload-pack">>,
           <<"r.git", "git-receive-pack">>, <<"r.git", "repository", "archive.zip">>,
           <<"r.git", "repository", "archive.exe">>, <<"r.git", "HEAD">>,
           <<"refs">> }

\* strings.HasSuffix(path, "/" + suffix), segment by segment
HasSuffix(path, suffix) ==
    /\ Len(suffix) <= Len(path)
    /\ SubSeq(path, Len(path) - Len(suffix) + 1, Len(path)) = suffix

\* a match on the suffix alone
ServiceMatchesAnyMethod(g, method, path) == HasSuffix(path, g.suffix)

ServiceMatches(g, method, path) == method = g.method /\ HasSuffix(path, g.suffix)

\* the loop over gitServices: the index of the first match, 0 for none
FindService(method, path) ==
    IF \E i \in 1..Len(gitServices) : ServiceMatches(gitServices[i], method, path)
    THEN CHOOSE i \in 1..Len(gitServices) :
            /\ ServiceMatches(gitServices[i], method, path)
            /\ \A j \in 1..(i - 1) : ~ServiceMatches(gitServices[j], method, path)
    ELSE 0

\* strings.EqualFold(k, "WWW-Authenticate")
Lower(k) ==
    CASE k \in {"Www-Authenticate", "WWW-Authenticate"} -> "www-authenticate"
      [] k = "Content-Type" -> "content-type"
      [] k = "Set-Cookie" -> "set-cookie"
      [] OTHER -> k

EqualFold(a, b) == Lower(a) = Lower(b)

\* no header copied
SetHeadersNone(hdr, from) == hdr

\* w.Header()[k] = v for every pair of `from`
SetHeaders(hdr, from) ==
    {kv \in hdr : \A n \in from : n[1] # kv[1]} \cup from

\* the HTTP server calls gitHandler.ServeHTTP
GateArrive(r, method, path, service) ==
    /\ h[r].pc = "idle"
    /\ h' = [h EXCEPT ![r].pc = "g_route", ![r].method = method,
                      ![r].path = path, ![r].name = service]
    /\ UNCHANGED <<proc, stdout, ktask, fs, urlBase>>
    /\ UNCHANGED <<kwVars, pubVars>>

\* ServeHTTP: look for a matching Git service
GateRoute(r) ==
    /\ h[r].pc = "g_route"
    /\ h' = [h EXCEPT ![r] =
                IF FindService(h[r].method, h[r].path) = 0
                THEN Return(HttpError(h[r], 403, "Forbidden"))
                ELSE [h[r] EXCEPT !.pc = "g_auth"]]
    /\ UNCHANGED <<proc, stdout, ktask, fs, urlBase>>
    /\ UNCHANGED <<kwVars, pubVars>>

\* g.handleFunc(env, g.rpc, repoPath, w, r): the handler of the service runs
Dispatch(hr, g, env) ==
    [hr EXCEPT !.kind = g.handleFunc,
               !.repo = env.RepoPath,
               !.glId = env.GL_ID,
               !.name = CASE g.handleFunc = "inforefs" -> hr.name
                          [] g.handleFunc = "rpc" -> g.rpc
                          [] OTHER -> hr.path[Len(hr.path)],
               !.pc = CASE g.handleFunc = "inforefs" -> "i_service"
                        [] g.handleFunc = "rpc" -> "p_action"
                        [] OTHER -> "a_begin"]

\* ServeHTTP from doAuthRequest on: the answer `a` of the auth backend, of
\* whose body io.Copy forwards `copied` parts when the status is not 200
GateAuth(r, a, copied) ==
    /\ h[r].pc = "g_auth"
    /\ a \in AuthResponses
    /\ copied \in 0..Len(a.body)
    /\ a.err \/ a.status = 200 => copied = Len(a.body)
    /\ LET g == gitServices[FindService(h[r].method, h[r].path)]
           h0 == [h[r] EXCEPT !.asked = TRUE, !.auth = a]
           h1 == [h0 EXCEPT !.hdr = SetHeaders(@, {kv \in a.header :
                                       EqualFold(kv[1], "WWW-Authenticate")})]
       IN h' = [h EXCEPT ![r] =
                   IF a.err THEN Return(Fail500(h0, "doAuthRequest"))
                   ELSE IF a.status # 200
                   THEN Return([h0 EXCEPT !.hdr = SetHeaders(@, a.header),
                                          !.status = a.status,
                                          !.resp = SubSeq(a.body, 1, copied),
                                          !.cut = copied < Len(a.body)])
                   ELSE IF ~a.decodes THEN Return(Fail500(h0, "decode JSON GL_ID"))
                   ELSE IF ~looksLikeRepo(a.env.RepoPath)
                   THEN Return(HttpError(h1, 404, "Not Found"))
                   ELSE Dispatch(h1, g, a.env)]
    /\ UNCHANGED <<proc, stdout, ktask, fs, urlBase>>
    /\ UNCHANGED <<kwVars, pubVars>>

\* every service name taken as supported
SupportedServiceAny(rpc) == TRUE

SupportedService(rpc) == rpc = "git-upload-pack" \/ rpc = "git-receive-pack"

\* handleGetInfoRefs: rpc := getService(r) and its check
InfoRefsService(r) ==
    /\ h[r].pc = "i_service"
    /\ h' = [h EXCEPT ![r] =
                IF ~SupportedService(h[r].name)
                THEN Return(HttpError(h[r], 404, "Not Found"))
                ELSE [h[r] EXCEPT !.pc = "i_start"]]
    /\ UNCHANGED <<proc, stdout, ktask, fs, urlBase>>
    /\ UNCHANGED <<kwVars, pubVars>>

\* handleGetInfoRefs: cmd.StdoutPipe(), cmd.Start(), defer CleanUpProcessGroup
InfoRefsStart(r, pipeOk, startOk) ==
    /\ h[r].pc = "i_start"
    /\ IF pipeOk /\ startOk
       THEN /\ h' = [h EXCEPT ![r].pc = "i_header"]
            /\ proc' = [proc EXCEPT ![r]["cmd"] =
                                 StartedWith(@, gitCommand(h[r].glId))]
       ELSE /\ h' = [h EXCEPT ![r] =
                        Return(Fail500(h[r], IF pipeOk THEN "start" ELSE "stdout"))]
            /\ UNCHANGED proc
    /\ UNCHANGED <<stdout, ktask, fs, urlBase>>
    /\ UNCHANGED <<kwVars, pubVars>>

\* %04x of n
HexDigit(d) ==
    <<"0", "1", "2", "3", "4", "5", "6", "7",
      "8", "9", "a", "b", "c", "d", "e", "f">>[d + 1]

Hex4(n) ==
    HexDigit((n \div 4096) % 16) \o HexDigit((n \div 256) % 16)
       \o HexDigit((n \div 16) % 16) \o HexDigit(n % 16)

\* the length field counting the payload only
pktLineShort(str) == Hex4(Len(str)) \o str

\* pktLine: fmt.Fprintf(w, "%04x%s", len(s)+4, s)
pktLine(str) == Hex4(Len(str) + 4) \o str

\* pktFlush: fmt.Fprint(w, "0000")
pktFlush == "0000"

\* handleGetInfoRefs: w.WriteHeader(200), pktLine, pktFlush
InfoRefsHeader(r, pktOk, flushOk) ==
    /\ h[r].pc = "i_header"
    /\ h' = [h EXCEPT ![r] =
                LET h1 == [h[r] EXCEPT !.status = 200]
                    h2 == [h1 EXCEPT !.resp = Append(@,
                               pktLine("# service=" \o h[r].name \o "\n"))]
                    h3 == [h2 EXCEPT !.resp = Append(@, pktFlush)]
                IN IF ~pktOk THEN [LogError(h1, "pktLine") EXCEPT !.pc = "cleanup"]
                   ELSE IF ~flushOk
                   THEN [LogError(h2, "pktFlush") EXCEPT !.pc = "cleanup"]
                   ELSE [h3 EXCEPT !.pc = "copy_read"]]
    /\ UNCHANGED <<proc, stdout, ktask, fs, urlBase>>
    /\ UNCHANGED <<kwVars, pubVars>>

\* handlePostRPC: action := getService(r) and its check
\* with r.Body holding the first `len` bytes of BodyStream
RpcAction(r, len) ==
    /\ h[r].pc = "p_action"
    /\ len \in 0..MaxBody
    /\ h' = [h EXCEPT ![r] =
                IF ~SupportedService(h[r].name)
                THEN Return(Fail500(h[r], "unsupported action"))
                ELSE [h[r] EXCEPT !.body = SubSeq(BodyStream, 1, len),
                                !.pc = IF h[r].name = "git-upload-pack"
                                       THEN "p_sniff" ELSE "p_start"]]
    /\ UNCHANGED <<proc, stdout, ktask, fs, urlBase>>
    /\ UNCHANGED <<kwVars, pubVars>>

\* handlePostRPC: buffer the first 4096 bytes of the body and scanDeepen
Min(a, b) == IF a <= b THEN a ELSE b

\* the sniffed bytes dropped from what the child gets
ReplayRestOnly(buffer, body, rd) == SubSeq(body, rd + 1, Len(body))

\* io.MultiReader(buffer, r.Body) read to its end: the buffer, then what
\* r.Body still holds after rd bytes were read from it
Replay(buffer, body, rd) == buffer \o SubSeq(body, rd + 1, Len(body))

RpcSniff(r, readOk, deepen) ==
    /\ h[r].pc = "p_sniff"
    /\ h' = [h EXCEPT ![r] =
                LET n == Min(SniffLimit, Len(h[r].body))
                IN IF ~readOk THEN Return(Fail500(h[r], "buffer body"))
                   ELSE [h[r] EXCEPT !.isShallowClone = deepen,
                                   !.bodyRd = n,
                                   !.buffer = SubSeq(h[r].body, 1, n),
                                   !.pc = "p_start"]]
    /\ UNCHANGED <<proc, stdout, ktask, fs, urlBase>>
    /\ UNCHANGED <<kwVars, pubVars>>

\* handlePostRPC: StdoutPipe, StdinPipe, cmd.Start(), defer CleanUpProcessGroup
RpcStart(r, pipesOk, startOk) ==
    /\ h[r].pc = "p_start"
    /\ IF pipesOk /\ startOk
       THEN /\ h' = [h EXCEPT ![r].pc = "p_stdin"]
            /\ proc' = [proc EXCEPT ![r]["cmd"] =
                                 StartedWith(@, gitCommand(h[r].glId))]
       ELSE /\ h' = [h EXCEPT ![r] =
                        Return(Fail500(h[r], IF pipesOk THEN "start" ELSE "pipe"))]
            /\ UNCHANGED proc
    /\ UNCHANGED <<stdout, ktask, fs, urlBase>>
    /\ UNCHANGED <<kwVars, pubVars>>

\* handlePostRPC: io.Copy(stdin, body), stdin.Close(), w.WriteHeader(200)
\* a failed copy leaves the first `written` bytes in the child's input
RpcCopyBody(r, copyOk, written) ==
    /\ h[r].pc = "p_stdin"
    /\ LET all == Replay(h[r].buffer, h[r].body, h[r].bodyRd)
       IN /\ written \in 0..Len(all)
          /\ copyOk => written = Len(all)
          /\ ~copyOk => written = 0 \/ written < Len(all)
          /\ h' = [h EXCEPT ![r] =
                      IF ~copyOk
                      THEN [Fail500([h[r] EXCEPT !.stdin = SubSeq(all, 1, written)],
                                    "write to cmd") EXCEPT !.pc = "cleanup"]
                      ELSE [h[r] EXCEPT !.stdin = all, !.stdinClosed = TRUE,
                                      !.status = 200, !.pc = "copy_read"]]
    /\ UNCHANGED <<proc, stdout, ktask, fs, urlBase>>
    /\ UNCHANGED <<kwVars, pubVars>>

\* io.Copy(w, stdout), reading: the next byte, or end of file once the child
\* has exited with everything read
CopyRead(r) ==
    /\ h[r].pc = "copy_read"
    /\ h[r].kind \in {"inforefs", "rpc"}
    /\ IF h[r].rd < stdout[r]
       THEN h' = [h EXCEPT ![r].rd = @ + 1, ![r].pc = "copy_write"]
       ELSE /\ proc[r]["cmd"].st # "running"
            /\ h' = [h EXCEPT ![r].pc = "cmd_wait"]
    /\ UNCHANGED <<proc, stdout, ktask, fs, urlBase>>
    /\ UNCHANGED <<kwVars, pubVars>>

\* io.Copy(w, stdout), writing the byte to the client
CopyWrite(r, writeOk) ==
    /\ h[r].pc = "copy_write"
    /\ h[r].kind \in {"inforefs", "rpc"}
    /\ h' = [h EXCEPT ![r] =
                IF writeOk
                THEN [h[r] EXCEPT !.resp = Append(@, FullStream[h[r].rd]),
                               !.pc = "copy_read"]
                ELSE [LogError(h[r], "copy output") EXCEPT !.pc = "cleanup"]]
    /\ UNCHANGED <<proc, stdout, ktask, fs, urlBase>>
    /\ UNCHANGED <<kwVars, pubVars>>

\* every error of cmd.Wait() logged
WaitLoggedAlways(hr, err) == err # "nil"

\* whether handlePostRPC / handleGetInfoRefs logs the error of cmd.Wait()
WaitLogged(hr, err) ==
    /\ err # "nil"
    /\ ~(hr.kind = "rpc" /\ err \in {"exit status", "signal"}
         /\ hr.isShallowClone)

\* cmd.Wait() at the end of handleGetInfoRefs and handlePostRPC
CmdWait(r) ==
    /\ h[r].pc = "cmd_wait"
    /\ proc[r]["cmd"].st = "exited"
    /\ h' = [h EXCEPT ![r] =
                [(IF WaitLogged(@, WaitError(proc[r]["cmd"]))
                  THEN LogError(h[r], "wait") ELSE h[r]) EXCEPT !.pc = "cleanup"]]
    /\ proc' = [proc EXCEPT ![r]["cmd"] = Reaped(@, "handler")]
    /\ UNCHANGED <<stdout, ktask, fs, urlBase>>
    /\ UNCHANGED <<kwVars, pubVars>>

\* no signal sent
CleanUpNotSignalled(pr) == pr

\* the process after CleanUpProcessGroup(cmd) has sent its signal
CleanUpSignalled(pr) == Killed(pr)

\* deferred CleanUpProcessGroup(cmd): the signal to the process group
CleanUpKill(r) ==
    /\ h[r].pc = "cleanup"
    /\ proc' = [proc EXCEPT ![r]["cmd"] = CleanUpSignalled(@)]
    /\ h' = [h EXCEPT ![r].pc = "cleanup_wait"]
    /\ UNCHANGED <<stdout, ktask, fs, urlBase>>
    /\ UNCHANGED <<kwVars, pubVars>>

\* deferred CleanUpProcessGroup(cmd): cmd.Wait(), then the handler returns
CleanUpWait(r) ==
    /\ h[r].pc = "cleanup_wait"
    /\ proc[r]["cmd"].st \in {"exited", "reaped"}
    /\ proc' = [proc EXCEPT ![r]["cmd"] = Reaped(@, "handler")]
    /\ h' = [h EXCEPT ![r].pc = "returned"]
    /\ UNCHANGED <<stdout, ktask, fs, urlBase>>
    /\ UNCHANGED <<kwVars, pubVars>>

(***************************************************************************)
(* The subprocesses, as the handlers can observe them.                     *)
(***************************************************************************)
\* the last command writes the next byte of its output; a compressor writes
\* its last byte only once `git archive` has exited with status 0
Produce(r) ==
    /\ proc[r][LastCmd(r)].st = "running"
    /\ stdout[r] < StreamLen
    /\ LastCmd(r) = "compressCmd" =>
          /\ proc[r]["archiveCmd"].st # "none"
          /\ stdout[r] = StreamLen - 1 => proc[r]["archiveCmd"].code = "ok"
    /\ stdout' = [stdout EXCEPT ![r] = @ + 1]
    /\ UNCHANGED <<h, proc, ktask, fs, urlBase>>
    /\ UNCHANGED <<kwVars, pubVars>>

\* whether command c can exit with status 0 now: the last command has
\* written its whole output; a compressor has seen the end of its input
CanSucceed(r, c) ==
    /\ c = LastCmd(r) /\ c # "compressCmd" => stdout[r] = StreamLen
    /\ c = "compressCmd" =>
          /\ proc[r]["archiveCmd"].st # "running"
          /\ proc[r]["archiveCmd"].st = "none" => h[r].pc # "a_archive"
          /\ proc[r]["archiveCmd"].code = "ok" => stdout[r] = StreamLen

\* a command exits by itself, with status 0 or not
ProcExit(r, c, code) ==
    /\ proc[r][c].st = "running"
    /\ code \in {"ok", "fail"}
    /\ code = "ok" => CanSucceed(r, c)
    /\ proc' = [proc EXCEPT ![r][c] = [@ EXCEPT !.st = "exited", !.code = code]]
    /\ UNCHANGED <<h, stdout, ktask, fs, urlBase>>
    /\ UNCHANGED <<kwVars, pubVars>>

\* the kernel gives the pid of a reaped child to a new process that leads
\* its own process group (as every child started with Setpgid does)
PidRecycled(r, c) ==
    /\ proc[r][c].st = "reaped"
    /\ ~proc[r][c].recycled
    /\ proc' = [proc EXCEPT ![r][c].recycled = TRUE]
    /\ UNCHANGED <<h, stdout, ktask, fs, urlBase>>
    /\ UNCHANGED <<kwVars, pubVars>>

(***************************************************************************)
(* Archive handler: archive.Inject, newArchiveReader, archiveReader.       *)
(***************************************************************************)
parseBasename(basename) ==
    CASE basename = "archive.zip" -> "zip"
      [] basename = "archive.tar" -> "tar"
      [] basename \in {"archive", "archive.tar.gz", "archive.tgz",
                       "archive.gz"} -> "tar.gz"
      [] basename \in {"archive.tar.bz2", "archive.tbz", "archive.tbz2",
                       "archive.tb2", "archive.bz2"} -> "tar.bz2"
      [] OTHER -> "invalid"

\* parseArchiveFormat: the compressor command, "none" for nil
parseArchiveFormat(format) ==
    CASE format = "tar.gz" -> "gzip"
      [] format = "tar.bz2" -> "bzip2"
      [] OTHER -> "none"

\* the senddata injecter calls archive.Inject
ArchiveArrive(r) ==
    /\ h[r].pc = "idle"
    /\ h' = [h EXCEPT ![r].pc = "a_begin", ![r].kind = "archive",
                      ![r].name = urlBase]
    /\ UNCHANGED <<proc, stdout, ktask, fs, urlBase>>
    /\ UNCHANGED <<kwVars, pubVars>>

\* Inject: a.Unpack and parseBasename
ArchiveBegin(r, unpackOk) ==
    /\ h[r].pc = "a_begin"
    /\ h' = [h EXCEPT ![r] =
                IF ~unpackOk THEN Return(Fail500(h[r], "unpack sendData"))
                ELSE IF parseBasename(h[r].name) = "invalid"
                THEN Return(Fail500(h[r], "invalid format"))
                ELSE [h[r] EXCEPT !.pc = "a_open"]]
    /\ UNCHANGED <<proc, stdout, ktask, fs, urlBase>>
    /\ UNCHANGED <<kwVars, pubVars>>

\* Inject: os.Open(params.ArchivePath); a hit is served from the open file
ArchiveOpen(r) ==
    /\ h[r].pc = "a_open"
    /\ h' = [h EXCEPT ![r] =
                IF fs.archive # "none"
                THEN Return([h[r] EXCEPT !.status = 200,
                                      !.resp = fs.ino[fs.archive],
                                      !.link = "hit"])
                ELSE [h[r] EXCEPT !.pc = "a_temp"]]
    /\ UNCHANGED <<proc, stdout, ktask, fs, urlBase>>
    /\ UNCHANGED <<kwVars, pubVars>>

\* Inject: prepareArchiveTempfile, defer tempFile.Close(), defer os.Remove
prepareArchiveTempfile(r, ok) ==
    /\ h[r].pc = "a_temp"
    /\ IF ok
       THEN /\ fs' = [fs EXCEPT !.tmp[r] = TRUE, !.ino[r] = << >>]
            /\ h' = [h EXCEPT ![r].tempFile = "open", ![r].pc = "a_reader"]
       ELSE /\ h' = [h EXCEPT ![r] = Return(Fail500(h[r], "create tempfile"))]
            /\ UNCHANGED fs
    /\ UNCHANGED <<proc, stdout, ktask, urlBase>>
    /\ UNCHANGED <<kwVars, pubVars>>

\* newArchiveReader: the pipes and, for a compressed format,
\* compressCmd.Start() and go ctxKill(ctx, compressCmd)
ReaderCompress(r, ok) ==
    /\ h[r].pc = "a_reader"
    /\ IF ~ok
       THEN /\ h' = [h EXCEPT ![r] = [Fail500(h[r], "newArchiveReader")
                                        EXCEPT !.pc = "a_defer"]]
            /\ UNCHANGED <<proc, ktask>>
       ELSE /\ h' = [h EXCEPT ![r].pc = "a_archive"]
            /\ IF parseArchiveFormat(parseBasename(h[r].name)) = "none"
               THEN UNCHANGED <<proc, ktask>>
               ELSE /\ proc' = [proc EXCEPT ![r]["compressCmd"] =
                                       StartedWith(@, CompressCommand)]
                    /\ ktask' = [ktask EXCEPT ![r]["compressCmd"] = "waiting"]
    /\ UNCHANGED <<stdout, fs, urlBase>>
    /\ UNCHANGED <<kwVars, pubVars>>

\* newArchiveReader: archiveCmd.Start() and go ctxKill(ctx, archiveCmd);
\* then Inject sets the headers and writes status 200
ReaderArchive(r, ok) ==
    /\ h[r].pc = "a_archive"
    /\ IF ~ok
       THEN /\ h' = [h EXCEPT ![r] = [Fail500(h[r], "start archiveCmd")
                                        EXCEPT !.pc = "a_defer"]]
            /\ UNCHANGED <<proc, ktask>>
       ELSE /\ h' = [h EXCEPT ![r].status = 200, ![r].pc = "a_copy_read"]
            /\ proc' = [proc EXCEPT ![r]["archiveCmd"] =
                                 StartedWith(@, gitCommand(""))]
            /\ ktask' = [ktask EXCEPT ![r]["archiveCmd"] = "waiting"]
    /\ UNCHANGED <<stdout, fs, urlBase>>
    /\ UNCHANGED <<kwVars, pubVars>>

\* waitCmds holding only the command whose output is read
waitCmdsLastOnly(r) ==
    IF proc[r]["compressCmd"].st # "none"
    THEN <<"compressCmd">>
    ELSE <<"archiveCmd">>

\* a.waitCmds, in the order newArchiveReader appends them
waitCmds(r) ==
    IF proc[r]["compressCmd"].st # "none"
    THEN <<"compressCmd", "archiveCmd">>
    ELSE <<"archiveCmd">>

\* io.Copy(w, io.TeeReader(archiveReader, tempFile)), reading: a byte, which
\* the tee writes to the temporary file; end of file; or the error of a
\* read from a pipe that ctxKill's Wait has closed
ArchiveCopyRead(r, teeOk) ==
    /\ h[r].pc = "a_copy_read"
    /\ IF proc[r][LastCmd(r)].st = "reaped"
       THEN /\ h' = [h EXCEPT ![r] = [LogError(h[r], "copy: read")
                                        EXCEPT !.pc = "a_defer"]]
            /\ UNCHANGED fs
       ELSE IF h[r].rd < stdout[r]
       THEN IF teeOk
            THEN /\ fs' = [fs EXCEPT !.ino[r] = Append(@, FullStream[h[r].rd + 1])]
                 /\ h' = [h EXCEPT ![r].rd = @ + 1, ![r].pc = "a_copy_write"]
            ELSE /\ h' = [h EXCEPT ![r] = [LogError(h[r], "copy: tee")
                                             EXCEPT !.pc = "a_defer"]]
                 /\ UNCHANGED fs
       ELSE /\ proc[r][LastCmd(r)].st = "exited"
            /\ h' = [h EXCEPT ![r].pc = "a_wait"]
            /\ UNCHANGED fs
    /\ UNCHANGED <<proc, stdout, ktask, urlBase>>
    /\ UNCHANGED <<kwVars, pubVars>>

\* io.Copy(w, reader), writing the byte to the client
ArchiveCopyWrite(r, writeOk) ==
    /\ h[r].pc = "a_copy_write"
    /\ h' = [h EXCEPT ![r] =
                IF writeOk
                THEN [h[r] EXCEPT !.resp = Append(@, FullStream[h[r].rd]),
                               !.pc = "a_copy_read"]
                ELSE [LogError(h[r], "copy: write") EXCEPT !.pc = "a_defer"]]
    /\ UNCHANGED <<proc, stdout, ktask, fs, urlBase>>
    /\ UNCHANGED <<kwVars, pubVars>>

\* the error of the first command only
FirstErrorHeadOnly(errs) == IF errs = << >> THEN "nil" ELSE Head(errs)

\* archiveReader.wait: the first error among waitErrors, "nil" for none
RECURSIVE FirstError(_)
FirstError(errs) ==
    IF errs = << >> THEN "nil"
    ELSE IF Head(errs) # "nil" THEN Head(errs)
    ELSE FirstError(Tail(errs))

\* archiveReader.Read at end of file: a.wait() calls Wait on every command
\* of waitCmds in turn; after the last one Read returns io.EOF or the error
ReaderWait(r) ==
    /\ h[r].pc = "a_wait"
    /\ LET c == waitCmds(r)[Len(h[r].waitErrors) + 1]
           errs == Append(h[r].waitErrors, WaitError(proc[r][c]))
       IN /\ proc[r][c].st \in {"exited", "reaped"}
          /\ proc' = [proc EXCEPT ![r][c] = Reaped(@, "handler")]
          /\ h' = [h EXCEPT ![r] =
                      IF Len(errs) < Len(waitCmds(r))
                      THEN [h[r] EXCEPT !.waitErrors = errs]
                      ELSE IF FirstError(errs) = "nil"
                      THEN [h[r] EXCEPT !.waitErrors = errs, !.pc = "a_finalize"]
                      ELSE [LogError([h[r] EXCEPT !.waitErrors = errs], "copy: wait")
                              EXCEPT !.pc = "a_defer"]]
    /\ UNCHANGED <<stdout, ktask, fs, urlBase>>
    /\ UNCHANGED <<kwVars, pubVars>>

\* finalizeCachedArchive: tempFile.Close()
FinalizeClose(r, ok) ==
    /\ h[r].pc = "a_finalize"
    /\ h' = [h EXCEPT ![r] =
                IF ok THEN [h[r] EXCEPT !.tempFile = "closed", !.pc = "a_link"]
                ELSE [LogError(h[r], "finalize: close")
                        EXCEPT !.link = "failed", !.pc = "a_defer"]]
    /\ UNCHANGED <<proc, stdout, ktask, fs, urlBase>>
    /\ UNCHANGED <<kwVars, pubVars>>

\* os.Link(tempFile.Name(), archivePath): "created", "exists" (EEXIST) or
\* "failed" (any other error)
LinkResult(archive, fault) ==
    IF fault THEN "failed"
    ELSE IF archive # "none" THEN "exists"
    ELSE "created"

\* every link error reported, "file exists" included
LinkIsErrorStrict(res) == res # "created"

\* finalizeCachedArchive: err != nil && !os.IsExist(err)
LinkIsError(res) == res = "failed"

\* finalizeCachedArchive: os.Link and its error check
FinalizeLink(r, fault) ==
    /\ h[r].pc = "a_link"
    /\ LET res == LinkResult(fs.archive, fault)
       IN /\ fs' = IF res = "created" THEN [fs EXCEPT !.archive = r] ELSE fs
          /\ h' = [h EXCEPT ![r] =
                      [(IF LinkIsError(res) THEN LogError(h[r], "finalize: link")
                        ELSE h[r]) EXCEPT !.link = res, !.pc = "a_defer"]]
    /\ UNCHANGED <<proc, stdout, ktask, urlBase>>
    /\ UNCHANGED <<kwVars, pubVars>>

\* the temporary names left when the deferred os.Remove is skipped
RemoveSkipped(tmp, r) == tmp

\* os.Remove(tempFile.Name()): the temporary name of request r is gone
Remove(tmp, r) == [tmp EXCEPT ![r] = FALSE]

\* Inject returns: the deferred os.Remove(tempFile.Name()), tempFile.Close()
ArchiveDefer(r) ==
    /\ h[r].pc = "a_defer"
    /\ fs' = [fs EXCEPT !.tmp = Remove(@, r)]
    /\ h' = [h EXCEPT ![r].tempFile = "closed", ![r].pc = "returned"]
    /\ UNCHANGED <<proc, stdout, ktask, urlBase>>
    /\ UNCHANGED <<kwVars, pubVars>>

\* the HTTP server cancels the request's context once the handler returned
ServerCancel(r) ==
    /\ h[r].pc = "returned"
    /\ h[r].ctx = "live"
    /\ h' = [h EXCEPT ![r].ctx = "cancelled"]
    /\ UNCHANGED <<proc, stdout, ktask, fs, urlBase>>
    /\ UNCHANGED <<kwVars, pubVars>>

\* the client goes away while the archive handler runs: the context is
\* cancelled
ClientGone(r) ==
    /\ h[r].kind = "archive"
    /\ h[r].pc \notin {"idle", "returned"}
    /\ h[r].ctx = "live"
    /\ h' = [h EXCEPT ![r].ctx = "cancelled"]
    /\ UNCHANGED <<proc, stdout, ktask, fs, urlBase>>
    /\ UNCHANGED <<kwVars, pubVars>>

\* ctxKill: <-ctx.Done(), then CleanUpProcessGroup(cmd) sends its signal
CtxKillSignal(r, c) ==
    /\ ktask[r][c] = "waiting"
    /\ h[r].ctx = "cancelled"
    /\ proc' = [proc EXCEPT ![r][c] = CleanUpSignalled(@)]
    /\ ktask' = [ktask EXCEPT ![r][c] = "reap"]
    /\ UNCHANGED <<h, stdout, fs, urlBase>>
    /\ UNCHANGED <<kwVars, pubVars>>

\* ctxKill: the cmd.Wait() of CleanUpProcessGroup; the second cmd.Wait()
\* finds the child waited for
CtxKillWait(r, c) ==
    /\ ktask[r][c] = "reap"
    /\ proc[r][c].st \in {"exited", "reaped"}
    /\ proc' = [proc EXCEPT ![r][c] = Reaped(@, "ctxKill")]
    /\ ktask' = [ktask EXCEPT ![r][c] = "done"]
    /\ UNCHANGED <<h, stdout, fs, urlBase>>
    /\ UNCHANGED <<kwVars, pubVars>>

(***************************************************************************)
(* SpecH: one request, of any kind, through its handler.                   *)
(***************************************************************************)
KWIdle == KWInit /\ store = [k \in Keys |-> "v1"] /\ PubInit(0)

InitH == KWIdle /\ \E b \in Basenames : HInit(b)

NextH ==
    \E r \in {"r1"} :
        \/ \E k \in {"inforefs", "rpc"}, n \in Services, p \in RepoPaths :
              Arrive(r, k, n, p)
        \/ repoPreAuthorizeHandler(r)
        \/ \E m \in Methods, p \in Paths, n \in Services : GateArrive(r, m, p, n)
        \/ GateRoute(r)
        \/ \E a \in AuthResponses, n \in 0..2 : GateAuth(r, a, n)
        \/ \E c \in Cmds : PidRecycled(r, c)
        \/ InfoRefsService(r)
        \/ \E a \in BOOLEAN, b \in BOOLEAN : InfoRefsStart(r, a, b)
        \/ \E a \in BOOLEAN, b \in BOOLEAN : InfoRefsHeader(r, a, b)
        \/ \E n \in 0..MaxBody : RpcAction(r, n)
        \/ \E a \in BOOLEAN, b \in BOOLEAN : RpcSniff(r, a, b)
        \/ \E a \in BOOLEAN, b \in BOOLEAN : RpcStart(r, a, b)
        \/ \E a \in BOOLEAN, n \in 0..MaxBody : RpcCopyBody(r, a, n)
        \/ CopyRead(r)
        \/ \E a \in BOOLEAN : CopyWrite(r, a)
        \/ CmdWait(r)
        \/ CleanUpKill(r)
        \/ CleanUpWait(r)
        \/ Produce(r)
        \/ \E c \in Cmds, code \in {"ok", "fail"} : ProcExit(r, c, code)
        \/ ArchiveArrive(r)
        \/ \E a \in BOOLEAN : ArchiveBegin(r, a)
        \/ ArchiveOpen(r)
        \/ \E a \in BOOLEAN : prepareArchiveTempfile(r, a)
        \/ \E a \in BOOLEAN : ReaderCompress(r, a)
        \/ \E a \in BOOLEAN : ReaderArchive(r, a)
        \/ \E a \in BOOLEAN : ArchiveCopyRead(r, a)
        \/ \E a \in BOOLEAN : ArchiveCopyWrite(r, a)
        \/ ReaderWait(r)
        \/ \E a \in BOOLEAN : FinalizeClose(r, a)
        \/ \E a \in BOOLEAN : FinalizeLink(r, a)
        \/ ArchiveDefer(r)
        \/ ServerCancel(r)
        \/ ClientGone(r)
        \/ \E c \in Cmds : CtxKillSignal(r, c)
        \/ \E c \in Cmds : CtxKillWait(r, c)

SpecH == InitH /\ [][NextH]_vars

\* the server cancels the context of a finished request and the ctxKill
\* goroutines are scheduled
FairH ==
    \A r \in Reqs :
        /\ WF_vars(ServerCancel(r))
        /\ \A c \in Cmds : WF_vars(CtxKillSignal(r, c)) /\ WF_vars(CtxKillWait(r, c))

SpecHFair == SpecH /\ FairH

(***************************************************************************)
(* SpecArchive: concurrent archive requests for one archive_path.          *)
(***************************************************************************)
InitArchive == KWIdle /\ \E b \in {"archive.tar"} : HInit(b)

NextArchive ==
    \E r \in Reqs :
        \/ ArchiveArrive(r)
        \/ \E a \in BOOLEAN : ArchiveBegin(r, a)
        \/ ArchiveOpen(r)
        \/ \E a \in BOOLEAN : prepareArchiveTempfile(r, a)
        \/ \E a \in BOOLEAN : ReaderCompress(r, a)
        \/ \E a \in BOOLEAN : ReaderArchive(r, a)
        \/ \E a \in BOOLEAN : ArchiveCopyRead(r, a)
        \/ \E a \in BOOLEAN : ArchiveCopyWrite(r, a)
        \/ ReaderWait(r)
        \/ \E a \in BOOLEAN : FinalizeClose(r, a)
        \/ \E a \in BOOLEAN : FinalizeLink(r, a)
        \/ ArchiveDefer(r)
        \/ ServerCancel(r)
        \/ ClientGone(r)
        \/ \E c \in Cmds : CtxKillSignal(r, c)
        \/ \E c \in Cmds : CtxKillWait(r, c)
        \/ Produce(r)
        \/ \E c \in Cmds, code \in {"ok", "fail"} : ProcExit(r, c, code)

SpecArchive == InitArchive /\ [][NextArchive]_vars

(***************************************************************************)
(* SpecKW: WatchKey callers against the publisher on a store that accepts  *)
(* connections.                                                            *)
(***************************************************************************)
InitKW == KWInit /\ PubInit(0) /\ HInit("archive")

NextKW ==
    \/ \E w \in Watchers, k \in Keys, v \in Values : WatchKeyCall(w, k, v)
    \/ \E w \in Watchers : addKeyChan(w)
    \/ \E w \in Watchers, err \in BOOLEAN : WatchKeyGet(w, err)
    \/ \E w \in Watchers : WatchKeyNotified(w)
    \/ \E w \in Watchers : WatchKeyTimeout(w)
    \/ \E w \in Watchers, err \in BOOLEAN : WatchKeyReread(w, err)
    \/ \E w \in Watchers : delKeyChan(w)
    \/ \E k \in Keys, v \in Values : StoreEvent(k, v)
    \/ DialOk
    \/ PSubscribeOk
    \/ ReceiveError
    \/ ReceiveMessage
    \/ NotifySend
    \/ NotifyDone

SpecKW == InitKW /\ [][NextKW]_vars

(***************************************************************************)
(* SpecPub: the publisher alone against a store that refuses connections,  *)
(* fails subscriptions and drops connections.                              *)
(***************************************************************************)
InitPub == KWInit /\ PubInit(MaxDialFails) /\ HInit("archive")

NextPub ==
    \/ \E k \in Keys, v \in Values : StoreEvent(k, v)
    \/ DialOk
    \/ DialFail
    \/ SleepDone
    \/ PSubscribeOk
    \/ PSubscribeFail
    \/ ReceiveError
    \/ ReceiveMessage

SpecPub == InitPub /\ [][NextPub]_vars

(***************************************************************************)
(* Claims about the handlers' subprocesses, under SpecHFair.               *)
(***************************************************************************)
HandlerReturned(r) == h[r].pc = "returned"
AllReaped(r) == \A c \in Cmds : proc[r][c].st \in {"none", "reaped"}

\* C1 as stated: when a handler returns, every subprocess it started is no
\* longer running and has been reaped.
C1_ReapedAtReturn ==
    \A r \in Reqs : HandlerReturned(r) => AllReaped(r)

\* what holds of a returned handler's subprocesses
C1_AtReturn ==
    \A r \in Reqs :
        /\ HandlerReturned(r) /\ h[r].kind \in {"inforefs", "rpc"} => AllReaped(r)
        /\ HandlerReturned(r) /\ h[r].kind = "archive" /\ h[r].errlog = << >>
              => AllReaped(r)
        /\ \A c \in Cmds :
              /\ h[r].kind = "archive" /\ proc[r][c].st # "none"
                    => ktask[r][c] # "none"
              /\ ktask[r][c] = "done" => proc[r][c].st = "reaped"
              /\ HandlerReturned(r) /\ h[r].kind = "archive"
                 /\ proc[r][c].st \notin {"none", "reaped"}
                    => ktask[r][c] \in {"waiting", "reap"}

\* C1: when the info-refs or the RPC handler returns, the subprocess it
\* started has been signalled and reaped.  When the archive handler returns
\* without an error its subprocesses have been reaped; on its error paths
\* they may still run at the return, each one bound to a ctxKill goroutine
\* that signals and reaps it once the request's context is cancelled, so
\* that every subprocess of a returned handler is eventually reaped.
C1_ReapedAtReturnOrByCtxKill ==
    /\ []C1_AtReturn
    /\ \A r \in Reqs : HandlerReturned(r) ~> AllReaped(r)

\* the archive handler has returned after a failed write to the client and
\* ctxKill has reaped `git archive`
C1_Witness ==
    \E r \in Reqs :
        /\ HandlerReturned(r)
        /\ h[r].errlog = <<"copy: write">>
        /\ proc[r]["archiveCmd"].st = "reaped"
        /\ proc[r]["archiveCmd"].by = "ctxKill"
        /\ AllReaped(r)

(***************************************************************************)
(* Claims about the archive cache.                                         *)
(***************************************************************************)
\* the cache-miss request r has copied the whole output and every Wait
\* returned nil
CopySucceeded(r) ==
    /\ h[r].kind = "archive"
    /\ h[r].waitErrors # << >>
    /\ Len(h[r].waitErrors) = Len(waitCmds(r))
    /\ \A i \in 1..Len(h[r].waitErrors) : h[r].waitErrors[i] = "nil"

C2_CompleteWhileVisible ==
    /\ fs.archive # "none" =>
          /\ fs.ino[fs.archive] = FullStream
          /\ h[fs.archive].tempFile = "closed"
          /\ h[fs.archive].link = "created"
    /\ \A r \in Reqs :
          h[r].tempFile = "open" \/ h[r].pc \in {"a_copy_read", "a_copy_write"}
             => fs.archive # r

C2_OnlyByLink ==
    /\ fs'.archive # fs.archive =>
          /\ fs.archive = "none"
          /\ \E r \in Reqs :
                /\ fs'.archive = r
                /\ h[r].pc = "a_link"
                /\ h[r].tempFile = "closed"
                /\ fs.tmp[r]
                /\ fs.ino[r] = FullStream
                /\ fs'.ino = fs.ino
    /\ \A r \in Reqs :
          fs'.ino[r] # fs.ino[r] => fs.archive # r /\ fs'.archive # r

\* C2 (under SpecH): whenever a file exists at archive_path it holds the
\* complete archive.  The bytes of a build in progress are written to the
\* request's temporary file only, which is not the file at archive_path, and
\* archive_path comes into existence only by the link of a temporary file
\* that holds the complete archive and has been closed.
C2_ArchiveCompleteOnceVisible ==
    []C2_CompleteWhileVisible /\ [][C2_OnlyByLink]_vars

\* a compressed archive has been built and linked at archive_path
C2_Witness ==
    /\ fs.archive = "r1"
    /\ proc["r1"]["compressCmd"].st = "reaped"
    /\ h["r1"].waitErrors = <<"nil", "nil">>
    /\ HandlerReturned("r1")

\* C3 (under SpecArchive): of concurrent cache-miss requests for one
\* archive_path, every request whose copy succeeded and whose close and
\* link met no I/O fault returns without an error; archive_path is created
\* once: one request's link creates it, every other request's link finds
\* "file exists" and that is not reported as an error.
C3_AllSucceedOneLink ==
    /\ \A r \in Reqs :
          /\ HandlerReturned(r) /\ CopySucceeded(r) /\ h[r].link # "failed"
                => /\ h[r].link \in {"created", "exists"}
                   /\ h[r].errlog = << >>
                   /\ h[r].status = 200
          /\ h[r].link = "exists" => h[r].errlog = << >>
          /\ h[r].link \in {"created", "exists"} =>
                /\ fs.archive # "none"
                /\ h[fs.archive].link = "created"
          /\ h[r].link = "created" <=> fs.archive = r
    /\ Cardinality({r \in Reqs : h[r].link = "created"}) <= 1

\* both requests missed the cache; one created archive_path, the other's
\* link found it and both returned without an error
C3_Witness ==
    /\ h["r1"].link = "created" /\ h["r2"].link = "exists"
    /\ HandlerReturned("r1") /\ HandlerReturned("r2")
    /\ h["r1"].errlog = << >> /\ h["r2"].errlog = << >>

ViaGate(r) == h[r].method # ""

\* the auth backend answered 200 with an envelope and the repository path
\* has been looked at
PreAuthorized(r) ==
    IF ViaGate(r)
    THEN h[r].asked /\ ~h[r].auth.err /\ h[r].auth.status = 200 /\ h[r].auth.decodes
    ELSE h[r].kind \in {"inforefs", "rpc"} /\ h[r].pc \notin {"idle", "pre"}

\* RepoPath of the envelope
EnvelopeRepo(r) == IF ViaGate(r) THEN h[r].auth.env.RepoPath ELSE h[r].repo

NoneStarted(r) == \A c \in Cmds : proc[r][c].st = "none" /\ ktask[r][c] = "none"

\* C11: a pre-authorized request whose envelope names a repo_path without
\* an objects directory is answered 404 "Not Found" and the handler returns
\* at once: no handler of a service runs and no subprocess is started.
C11_MissingRepo404 ==
    \A r \in Reqs :
        PreAuthorized(r) /\ EnvelopeRepo(r) = "/srv/missing.git"
           => /\ HandlerReturned(r)
              /\ h[r].status = 404
              /\ h[r].resp = <<"Not Found">>
              /\ NoneStarted(r)

\* repoPreAuthorizeHandler has answered 404 for a path without objects/
C11_Witness ==
    \E r \in Reqs :
        /\ ~ViaGate(r) /\ PreAuthorized(r)
        /\ h[r].repo = "/srv/missing.git"
        /\ h[r].status = 404 /\ HandlerReturned(r)

\* C12 as stated: a pre-authorized request whose envelope has an empty
\* repo_path is answered 404.
C12_EmptyRepoPath404 ==
    \A r \in Reqs :
        PreAuthorized(r) /\ EnvelopeRepo(r) = "" => h[r].status = 404

\* C12: repoPreAuthorizeHandler answers an envelope with an empty repo_path
\* with 500 "Internal server error" and logs "RepoPath empty"; only
\* gitHandler.ServeHTTP, which hands the empty path to looksLikeRepo,
\* answers 404.  In both cases the handler returns without starting a
\* subprocess.
C12_EmptyRepoPath500 ==
    \A r \in Reqs :
        PreAuthorized(r) /\ EnvelopeRepo(r) = ""
           => /\ HandlerReturned(r)
              /\ NoneStarted(r)
              /\ ~ViaGate(r) => /\ h[r].status = 500
                                /\ h[r].resp = <<"Internal server error">>
                                /\ h[r].errlog = <<"RepoPath empty">>
              /\ ViaGate(r) => h[r].status = 404 /\ h[r].errlog = << >>

\* repoPreAuthorizeHandler has answered an empty repo_path
C12_Witness ==
    \E r \in Reqs :
        /\ ~ViaGate(r) /\ PreAuthorized(r)
        /\ h[r].repo = "" /\ h[r].status = 500 /\ HandlerReturned(r)

\* no entry of the routing table has the request's method and a suffix of
\* its path
NoRoute(r) ==
    \A i \in 1..Len(gitServices) :
        \/ h[r].method # gitServices[i].method
        \/ ~HasSuffix(h[r].path, gitServices[i].suffix)

\* C13: a request whose method and path match no entry of the routing
\* table is answered 403 "Forbidden" by ServeHTTP, which returns before the
\* auth request is issued; no handler runs and no subprocess is started.
C13_NoRoute403 ==
    \A r \in Reqs :
        ViaGate(r) /\ h[r].pc # "g_route" /\ NoRoute(r)
           => /\ HandlerReturned(r)
              /\ h[r].status = 403
              /\ h[r].resp = <<"Forbidden">>
              /\ ~h[r].asked
              /\ h[r].kind = "none"
              /\ NoneStarted(r)

\* a POST to /info/refs, a path of the table under another method, has been
\* answered 403
C13_Witness ==
    \E r \in Reqs :
        /\ h[r].method = "POST" /\ h[r].path = <<"r.git", "info", "refs">>
        /\ HandlerReturned(r) /\ h[r].status = 403

\* the auth backend answered with a status other than 200
AuthRefused(r) == h[r].asked /\ ~h[r].auth.err /\ h[r].auth.status # 200

\* C14: when the auth backend answers with a status other than 200, the
\* client gets the backend's status, its headers and its body (the whole
\* body unless the copy to the client is cut by an I/O error, then a prefix
\* of it); nothing is logged, no handler of a service runs and no
\* subprocess is started.
C14_RefusalForwarded ==
    \A r \in Reqs :
        AuthRefused(r)
           => /\ HandlerReturned(r)
              /\ h[r].status = h[r].auth.status
              /\ h[r].hdr = h[r].auth.header
              /\ ~h[r].cut => h[r].resp = h[r].auth.body
              /\ h[r].cut =>
                    /\ Len(h[r].resp) < Len(h[r].auth.body)
                    /\ h[r].resp = SubSeq(h[r].auth.body, 1, Len(h[r].resp))
              /\ h[r].errlog = << >>
              /\ h[r].kind = "none"
              /\ NoneStarted(r)

\* a 401 with its WWW-Authenticate header and its body has been forwarded
C14_Witness ==
    \E r \in Reqs :
        /\ AuthRefused(r) /\ HandlerReturned(r)
        /\ h[r].status = 401
        /\ <<"Www-Authenticate", "Basic realm=x">> \in h[r].hdr
        /\ h[r].resp = <<"HTTP Basic:", "Access denied">>

ErrorBodies == {"Internal server error", "Not Found", "Forbidden"}

C15_StatusFirst ==
    \A r \in Reqs :
        /\ h[r].resp # << >> => h[r].status # 0
        /\ h[r].status = 200 =>
              \A i \in 1..Len(h[r].resp) : h[r].resp[i] \notin ErrorBodies

C15_ErrorsOnlyLogged ==
    \A r \in Reqs :
        /\ h[r].status # 0 => h'[r].status = h[r].status
        /\ h[r].status = 200 =>
              /\ Len(h[r].resp) <= Len(h'[r].resp)
              /\ SubSeq(h'[r].resp, 1, Len(h[r].resp)) = h[r].resp
              /\ h'[r].errlog # h[r].errlog => h'[r].resp = h[r].resp

\* C15: in the info-refs, RPC and archive handlers the status is written
\* before any body byte and is written once.  After status 200 a failure
\* (write, copy, wait or finalize error) is logged and the handler stops
\* writing: the response keeps its status, gets no error body and stays a
\* prefix of what it would have been.
C15_StatusBeforeBody ==
    []C15_StatusFirst /\ [][C15_ErrorsOnlyLogged]_vars

\* the RPC handler has returned after a failed write to the client: status
\* 200, the error logged, the body cut short
C15_Witness ==
    \E r \in Reqs :
        /\ h[r].kind = "rpc" /\ HandlerReturned(r)
        /\ h[r].status = 200
        /\ h[r].errlog = <<"copy output">>
        /\ Len(h[r].resp) = 1

\* the handler of request r has looked at the service or format it was
\* asked for, which is none of the supported ones
UnsupportedAsked(r) ==
    /\ h[r].repo = "/srv/r.git" \/ h[r].kind = "archive"
    /\ \/ h[r].kind = "inforefs" /\ h[r].name = "git-foo"
          /\ h[r].pc \notin {"idle", "pre", "i_service"}
       \/ h[r].kind = "rpc" /\ h[r].name = "git-foo"
          /\ h[r].pc \notin {"idle", "pre", "p_action"}
       \/ h[r].kind = "archive" /\ h[r].name = "archive.exe"
          /\ h[r].pc \notin {"idle", "a_begin"}

RpcWaited(r) ==
    /\ h[r].kind = "rpc" /\ h[r].pc = "cleanup"
    /\ proc[r]["cmd"].st = "reaped"

\* C17: when cmd.Wait() of the RPC handler reports a non-zero exit, the
\* error is logged unless the action is git-upload-pack and the sniffer
\* flagged a shallow clone, then nothing is logged; a request for
\* git-receive-pack is never flagged, so its non-zero exit is always
\* logged; a Wait error that is no exit error is logged even for a shallow
\* clone.
C17_ExitLoggedUnlessShallow ==
    /\ \A r \in Reqs :
          /\ h[r].isShallowClone => h[r].kind = "rpc" /\ h[r].name = "git-upload-pack"
          /\ RpcWaited(r) =>
                /\ proc[r]["cmd"].code = "ok" => h[r].errlog = << >>
                /\ proc[r]["cmd"].code # "ok" =>
                      IF h[r].name = "git-upload-pack" /\ h[r].isShallowClone
                      THEN h[r].errlog = << >>
                      ELSE h[r].errlog = <<"wait">>
    /\ \A shallow \in BOOLEAN :
          LET hr == [NoReq EXCEPT !.kind = "rpc", !.isShallowClone = shallow]
          IN /\ WaitLogged(hr, "already waited")
             /\ WaitLogged(hr, "exit status") <=> ~shallow
             /\ ~WaitLogged(hr, "nil")

\* a shallow git-upload-pack has exited with a non-zero status and nothing
\* was logged
C17_Witness ==
    \E r \in Reqs :
        /\ RpcWaited(r)
        /\ h[r].name = "git-upload-pack" /\ h[r].isShallowClone
        /\ proc[r]["cmd"].code = "fail"
        /\ h[r].errlog = << >>

C18_SignalledBeforeWait ==
    \A r \in Reqs, c \in Cmds :
        /\ ktask[r][c] \in {"reap", "done"} =>
              h[r].ctx = "cancelled" /\ proc[r][c].st \in {"exited", "reaped"}
        /\ ktask[r][c] = "done" => proc[r][c].st = "reaped"

\* C18 (under SpecHFair): once the context of an archive request is
\* cancelled, by the client going away or by the server after the handler
\* returned, the ctxKill goroutine of every subprocess that was started
\* (git archive and the compressor) eventually has sent the termination
\* signal to its process group and has reaped it.
C18_CancelledThenReaped ==
    /\ []C18_SignalledBeforeWait
    /\ \A r \in Reqs, c \in Cmds :
          (h[r].kind = "archive" /\ h[r].ctx = "cancelled" /\ proc[r][c].st # "none")
             ~> (ktask[r][c] = "done" /\ proc[r][c].st = "reaped")

\* the client went away during the copy; ctxKill has signalled and reaped
\* the compressor and `git archive` while they were running
C18_Witness ==
    \E r \in Reqs :
        /\ h[r].ctx = "cancelled"
        /\ \A c \in {"archiveCmd", "compressCmd"} :
              /\ ktask[r][c] = "done"
              /\ proc[r][c].st = "reaped"
              /\ proc[r][c].code = "signal"
              /\ proc[r][c].by = "ctxKill"

\* C19 as stated: CleanUpProcessGroup may be called again, or after the
\* child has exited and was waited for: it returns, the child stays reaped,
\* and no signal goes to a process outside the child's own process group.
C19_TerminateGroupSafe ==
    \A r \in Reqs, c \in Cmds :
        /\ ktask[r][c] = "done" => proc[r][c].st = "reaped"
        /\ HandlerReturned(r) /\ h[r].kind \in {"inforefs", "rpc"}
              => proc[r][c].st \in {"none", "reaped"}
        /\ ~proc[r][c].stray

\* C20 as stated: every subprocess started for a request, the compressor
\* of the archive pipeline included, gets a replaced environment of exactly
\* PATH, with the server's value, and GL_ID.
C20_EveryChildEnvReplaced ==
    \A r \in Reqs, c \in Cmds :
        proc[r][c].st # "none" =>
            \E id \in {"", "u1"} :
                proc[r][c].env = {<<"PATH", "/usr/bin">>, <<"GL_ID", id>>}

\* C20: every Git command started for a request (git upload-pack,
\* receive-pack, archive) gets a replaced environment of exactly PATH, with
\* the server's value, and GL_ID, which is the identity of the envelope for
\* info-refs and RPC and empty for `git archive`.  The compressor of the
\* archive pipeline is created by exec.Command with no Env and inherits the
\* whole environment of the server.
C20_GitEnvReplaced ==
    \A r \in Reqs :
        /\ proc[r]["cmd"].st # "none" =>
              /\ proc[r]["cmd"].env = {<<"PATH", "/usr/bin">>, <<"GL_ID", h[r].glId>>}
              /\ h[r].glId = "u1"
        /\ proc[r]["archiveCmd"].st # "none" =>
              proc[r]["archiveCmd"].env = {<<"PATH", "/usr/bin">>, <<"GL_ID", "">>}
        /\ proc[r]["compressCmd"].st # "none" =>
              /\ proc[r]["compressCmd"].env = ParentEnv
              /\ <<"SECRET_TOKEN", "s3cr3t">> \in proc[r]["compressCmd"].env

\* gzip and `git archive` both run, each with its environment
C20_Witness ==
    \E r \in Reqs :
        /\ proc[r]["compressCmd"].st = "running"
        /\ proc[r]["archiveCmd"].st = "running"
        /\ proc[r]["archiveCmd"].env = {<<"PATH", "/usr/bin">>, <<"GL_ID", "">>}

(***************************************************************************)
(* Claims about the bodies the handlers write, under SpecH.                *)
(***************************************************************************)
IsPrefix(a, b) == Len(a) <= Len(b) /\ SubSeq(b, 1, Len(a)) = a

\* what the child of request r has written to its standard output
ChildOutput(r) == SubSeq(FullStream, 1, stdout[r])

\* the advertisement header of a service, written out
Advertisement(service) ==
    CASE service = "git-upload-pack" -> "001e# service=git-upload-pack\n"
      [] service = "git-receive-pack" -> "001f# service=git-receive-pack\n"

\* C21: an info-refs request for git-upload-pack or git-receive-pack whose
\* child has started gets status 200 and a body made of, in this order, the
\* packet line "# service=<service>\n" behind its four hex digits (payload
\* length plus 4), the flush packet "0000" and the child's output in its
\* order; cmd.Wait() is only called once the whole output has been copied.
C21_AdvertisementThenOutput ==
    \A r \in Reqs :
        h[r].kind = "inforefs" /\ proc[r]["cmd"].st # "none" /\ h[r].pc # "i_header"
           => /\ h[r].name \in {"git-upload-pack", "git-receive-pack"}
              /\ h[r].status = 200
              /\ IsPrefix(h[r].resp,
                          <<Advertisement(h[r].name), "0000">> \o ChildOutput(r))
              /\ h[r].errlog = << >> /\ h[r].pc \notin {"copy_read", "copy_write"}
                    => /\ h[r].resp = <<Advertisement(h[r].name), "0000">>
                                         \o ChildOutput(r)
                       /\ proc[r]["cmd"].st \in {"exited", "reaped"}
              /\ proc[r]["cmd"].st = "reaped" /\ h[r].errlog \in {<< >>, <<"wait">>}
                    => h[r].resp = <<Advertisement(h[r].name), "0000">>
                                      \o ChildOutput(r)

\* the advertisement of git-upload-pack and the whole output of the child
\* have been written and the child has been waited for
C21_Witness ==
    \E r \in Reqs :
        /\ h[r].kind = "inforefs" /\ HandlerReturned(r)
        /\ h[r].status = 200
        /\ h[r].resp = <<"001e# service=git-upload-pack\n", "0000">> \o FullStream
        /\ proc[r]["cmd"].st = "reaped" /\ proc[r]["cmd"].code = "ok"

Pipeline(r) == {c \in {"archiveCmd", "compressCmd"} : proc[r][c].st # "none"}

\* request r has gone past its copy: it is in finalizeCachedArchive or has
\* been through it
Finalizing(r) ==
    /\ h[r].kind = "archive"
    /\ h[r].pc \in {"a_finalize", "a_link"} \/ h[r].link # "none"

\* request r has logged a failure of its copy: a read, a write to the
\* temporary file or to the client, or a Wait
CopyFailed(r) ==
    \E i \in 1..Len(h[r].errlog) :
        h[r].errlog[i] \in {"copy: read", "copy: tee", "copy: write",
                            "copy: wait"}

\* C27: on a cache miss the temporary file is linked to archive_path only
\* after the end of the stream was read, Wait was called on every command of
\* the pipeline (on all of them, also when an earlier Wait failed) and every
\* one had exited with status 0, and every byte was written to the client
\* and to the temporary file; a request one of whose commands exited
\* non-zero or was signalled, or one of whose reads or writes failed, never
\* creates archive_path.
C27_LinkOnlyAfterCleanPipeline ==
    \A r \in Reqs :
        /\ Finalizing(r) =>
              /\ Pipeline(r) # {}
              /\ \A c \in Pipeline(r) :
                    /\ proc[r][c].st = "reaped"
                    /\ proc[r][c].by = "handler"
                    /\ proc[r][c].code = "ok"
              /\ Len(h[r].waitErrors) = Cardinality(Pipeline(r))
              /\ \A i \in 1..Len(h[r].waitErrors) : h[r].waitErrors[i] = "nil"
              /\ h[r].rd = StreamLen /\ stdout[r] = StreamLen
              /\ fs.ino[r] = FullStream
              /\ h[r].resp = FullStream
              /\ ~CopyFailed(r)
        /\ fs.archive = r => Finalizing(r) /\ h[r].link = "created"
        /\ (h[r].kind = "archive" /\ "copy: wait" \in
                {h[r].errlog[i] : i \in 1..Len(h[r].errlog)}) =>
              /\ Len(h[r].waitErrors) = Cardinality(Pipeline(r))
              /\ \A c \in Pipeline(r) : proc[r][c].st = "reaped"
        /\ (h[r].kind = "archive"
              /\ \/ CopyFailed(r)
                 \/ \E c \in Pipeline(r) : proc[r][c].code \in {"fail", "signal"}) =>
              /\ ~Finalizing(r)
              /\ fs.archive # r

\* the Wait on the compressor failed, the Wait on `git archive` was still
\* called and returned nil, and the request has returned without a link
C27_Witness ==
    /\ h["r1"].waitErrors = <<"exit status", "nil">>
    /\ proc["r1"]["archiveCmd"].st = "reaped"
    /\ proc["r1"]["archiveCmd"].by = "handler"
    /\ HandlerReturned("r1")
    /\ h["r1"].link = "none" /\ fs.archive = "none" /\ ~fs.tmp["r1"]

(***************************************************************************)
(* Claims about the mapping, the channels and the gauge, under SpecKW.     *)
(***************************************************************************)
\* C23: after any interleaving of addKeyChan, delKeyChan and
\* notifyChanWatchers, no key of the watcher mapping is mapped to an empty
\* sequence of channels.
C23_NoEmptySequence ==
    \A k \in DOMAIN keyWatcher : Len(keyWatcher[k]) > 0

\* delKeyChan took the last channel of a key and with it the key, while the
\* other key keeps its watcher
C23_Witness ==
    \E w \in Watchers, x \in Watchers :
        /\ wpc[w] = "returned" /\ wlog[w].waited = "timeout" /\ nsent[w] = 0
        /\ wkey[w] \notin DOMAIN keyWatcher
        /\ wkey[x] # wkey[w] /\ wkey[x] \in DOMAIN keyWatcher

\* the channel notifyChanWatchers is about to send to
SendingTo == NextChan(keyWatcher[nkey], nidx)

AboutToSend == ppc = "notify" /\ nidx <= Len(keyWatcher[nkey])

\* messages the call of w has read from its channel
Reads(w) == nsent[w] - chan[w]

\* C24: whenever notifyChanWatchers is about to send to a channel, that
\* channel of capacity one is empty, so the send does not block, whatever
\* the waiters are doing; and each waiter reads at most one message from its
\* channel, exactly when its select took the channel's case.
C24_PublisherNeverBlocks ==
    /\ AboutToSend => chan[SendingTo] = 0 /\ chan[SendingTo] < ChanCap
    /\ \A w \in Watchers :
          /\ chan[w] <= ChanCap
          /\ Reads(w) \in {0, 1}
          /\ Reads(w) = 1 <=> wlog[w].waited = "notified"

\* the publisher is about to send to the second channel of a key whose
\* waiter has already timed out, after the first waiter has read its message
C24_Witness ==
    /\ AboutToSend /\ nidx = 2
    /\ wpc[SendingTo] = "del" /\ wlog[SendingTo].waited = "timeout"
    /\ \E w \in Watchers : w # SendingTo /\ Reads(w) = 1

\* position of channel c in the sequence of key k, 0 when it is not there
PositionOf(m, k, c) == IF k \in DOMAIN m THEN IndexFrom(m[k], c, 1) ELSE 0

\* channels the running notifyChanWatchers has already sent to and counted
AlreadyCounted == IF ppc = "notify" THEN nidx - 1 ELSE 0

C25_GaugeMatches ==
    /\ keyWatchers + AlreadyCounted = TotalChans(keyWatcher, DOMAIN keyWatcher)
    /\ keyMutex = "unlocked" =>
          keyWatchers = TotalChans(keyWatcher, DOMAIN keyWatcher)
    /\ \A w \in Watchers :
          /\ Refs(w) <= 1
          /\ Refs(w) = 1 => InWatchKey(w) /\ PositionOf(keyWatcher, wkey[w], w) > 0
          /\ ~wlog[w].added => Refs(w) = 0

C25_DelRemovesOwnOnly ==
    \A w \in Watchers :
        (wpc[w] = "del" /\ wpc'[w] = "returned") =>
            /\ Refs(w)' = 0
            /\ keyWatchers' = keyWatchers - Refs(w)
            /\ \A x \in Watchers \ {w} :
                  /\ Refs(x)' = Refs(x)
                  /\ Refs(x) = 1 =>
                        PositionOf(keyWatcher', wkey[x], x) =
                            PositionOf(keyWatcher, wkey[x], x)
                            - (IF wkey[x] = wkey[w]
                                  /\ PositionOf(keyWatcher, wkey[w], w) \in
                                        1..(PositionOf(keyWatcher, wkey[x], x) - 1)
                               THEN 1 ELSE 0)

Pending(w) ==
    /\ ppc = "notify" /\ nkey = wkey[w]
    /\ \E i \in nidx..Len(keyWatcher[nkey]) : keyWatcher[nkey][i] = w

\* C26: WatchKey registers before it fetches; an event for the key that the
\* publisher dispatches while the call is between its registration and its
\* deregistration is placed in the call's channel, so that no call is
\* blocked in its select on an empty channel once such a dispatch is over.
C26_NoLostWakeup ==
    \A w \in Watchers :
        /\ wlog[w].first # "none" => wlog[w].added
        /\ wlog[w].dispatched => nsent[w] = 1 \/ Pending(w)
        /\ (wlog[w].dispatched /\ keyMutex = "unlocked" /\ wpc[w] = "select")
              => chan[w] = 1

\* an event was dispatched during a call that read the expected value: the
\* call finds its channel ready in its select
C26_Witness ==
    \E w \in Watchers :
        /\ wpc[w] = "select" /\ wlog[w].first = "equal"
        /\ wlog[w].dispatched /\ keyMutex = "unlocked" /\ chan[w] = 1

(***************************************************************************)
(* Claims about the key-watcher, under SpecKW.                             *)
(***************************************************************************)
Returned(w) == wpc[w] = "returned"
Leaving(w) == wpc[w] \in {"del", "returned"}

\* C5: after WatchKey has returned, with whatever status and under any
\* interleaving with other callers and the publisher, the mapping holds no
\* reference to the call's channel.
C5_NoReferenceAfterReturn ==
    \A w \in Watchers : Returned(w) => Refs(w) = 0

\* a call has timed out and returned while another call still watches its key
C5_Witness ==
    \E w \in Watchers, x \in Watchers :
        /\ w # x
        /\ Returned(w) /\ wret[w] = "Timedout"
        /\ wkey[x] = wkey[w] /\ Refs(x) = 1

\* C6: a dispatch of notifyChanWatchers sends exactly one notification to
\* each channel registered for the key, in order, and removes them all from
\* the mapping before it releases the mutex; no channel is ever sent more
\* than one notification.
C6_OneNotificationEach ==
    /\ \A c \in Watchers : nsent[c] <= 1
    /\ ppc = "notify" =>
          \A i \in 1..Len(keyWatcher[nkey]) :
              nsent[keyWatcher[nkey][i]] = (IF i < nidx THEN 1 ELSE 0)
    /\ keyMutex = "unlocked" =>
          \A k \in DOMAIN keyWatcher : \A i \in 1..Len(keyWatcher[k]) :
              nsent[keyWatcher[k][i]] = 0

\* a dispatch has notified two channels of one key and removed the key
C6_Witness ==
    /\ keyMutex = "unlocked"
    /\ \A c \in Watchers : nsent[c] = 1 /\ wkey[c] = nkey /\ Refs(c) = 0
    /\ nkey \notin DOMAIN keyWatcher

\* C7: when the value first fetched differs from the expected one, WatchKey
\* returns Immediately without having waited, has incremented the miss
\* counter once and the hit counter not at all, and its subscription is gone
\* from the mapping once it has returned.
C7_ImmediatelyOnDifference ==
    \A w \in Watchers :
        wlog[w].first = "differs" =>
            /\ Leaving(w)
            /\ wret[w] = "Immediately"
            /\ wlog[w].waited = "no"
            /\ wlog[w].misses = 1 /\ wlog[w].hits = 0
            /\ Returned(w) => Refs(w) = 0

C7_Witness ==
    \E w \in Watchers :
        /\ Returned(w) /\ wlog[w].first = "differs"
        /\ hitMiss.miss = 1

\* C8: when the value first fetched equals the expected one, WatchKey leaves
\* only after its channel fired or the timeout elapsed; after a notification
\* it returns Notified when the re-read value differs and NotifiedNoChange
\* when it is equal; after the timeout it returns Timedout.
C8_WaitThenStatus ==
    \A w \in Watchers :
        (wlog[w].first = "equal" /\ Leaving(w)) =>
            /\ wlog[w].waited \in {"notified", "timeout"}
            /\ wlog[w].waited = "notified" => nsent[w] >= 1
            /\ wlog[w].waited = "timeout" => wret[w] = "Timedout"
            /\ wlog[w].second = "differs" => wret[w] = "Notified"
            /\ wlog[w].second = "equal" => wret[w] = "NotifiedNoChange"
            /\ wlog[w].waited = "timeout" <=> wlog[w].second = "none"

C8_Witness ==
    \E w \in Watchers, x \in Watchers :
        /\ Returned(w) /\ wret[w] = "Notified"
        /\ Returned(x) /\ wret[x] = "NotifiedNoChange"

\* C9: when the first fetch or the re-read fails, WatchKey returns Failure,
\* has incremented neither counter, and its subscription is gone from the
\* mapping once it has returned.
C9_FailureOnStoreError ==
    \A w \in Watchers :
        (wlog[w].first = "error" \/ wlog[w].second = "error") =>
            /\ Leaving(w)
            /\ wret[w] = "Failure"
            /\ wlog[w].hits = 0 /\ wlog[w].misses = 0
            /\ Returned(w) => Refs(w) = 0

C9_Witness ==
    \E w \in Watchers, x \in Watchers :
        /\ Returned(w) /\ wlog[w].first = "error"
        /\ Returned(x) /\ wlog[x].second = "error"
        /\ hitMiss = [hit |-> 0, miss |-> 0]

(***************************************************************************)
(* Claims about the publisher's reconnection, under SpecPub.               *)
(***************************************************************************)
\* C10 as stated: after any disconnect (dial failure, subscribe failure,
\* receive error) the next connection attempt is made only after a sleep.
C10_SleepAfterEveryDisconnect ==
    [][(ppc = "dial" /\ ppc' # "dial" /\ plog.last # "none") => plog.slept]_vars

\* C10 as amended: Process sleeps only after a failed dial, and then before
\* every next attempt; after a failed subscription or a receive error it
\* dials again at once, the backoff reset. The n-th sleep in a row of failed
\* dials lasts between 100 ms and 100 ms * 2^(n-1), at most 60 s; the first
\* one after a successful dial lasts 100 ms.
C10_BackoffOnDialFailure ==
    /\ ppc = "sleep" =>
          /\ plog.last = "dial"
          /\ delay >= 100
          /\ delay <= 100 * Pow(2, plog.fails - 1)
          /\ delay <= 60000
    /\ ppc # "sleep" => delay = 0
    /\ (ppc = "dial" /\ plog.last = "dial") => plog.slept
    /\ (ppc = "dial" /\ plog.last \in {"subscribe", "receive"}) =>
          ~plog.slept /\ attempt = 0

\* the eleventh sleep in a row has reached the cap
C10_Witness ==
    /\ ppc = "sleep" /\ delay = 60000 /\ plog.fails = 11

=============================================================================
